---- MODULE Spec2Model ----
(***************************************************************************)
(* Marionete: record / replay of user interactions.                        *)
(*                                                                         *)
(* Two state machines are modelled from the sources:                       *)
(*   - the replay machine (Player, content/player.js) driven through the   *)
(*     content-script command handlers (content/injector.js);              *)
(*   - the capture machine (Recorder, content/recorder.js), the content    *)
(*     script that owns it (content/injector.js) and the background        *)
(*     mirror (background service worker with state persistence).          *)
(*                                                                         *)
(* JavaScript runs each callback to completion: one action of the model is *)
(* one run of code between two suspension points (await / timer / message  *)
(* delivery).                                                              *)
(***************************************************************************)
EXTENDS Integers, Sequences, FiniteSets, TLC

VARIABLES
    player,      \* the Player instance: isPlaying, currentStep, actions,
                 \* playbackSpeed, abortController
    calls,       \* the play() invocations in flight (past the precondition
                 \* checks, not yet returned), oldest first, each with its
                 \* locals and its position
    location,    \* window.location.href
    response,    \* what the step just taken handed to sendResponse, or the
                 \* signal it handled
    injected,    \* the content script's listeners exist in the current page
    recorder,    \* the Recorder instance of the current page
    clock,       \* performance.now() of the current page
    channel,     \* chrome.runtime messages sent to the background and not
                 \* yet handled there, oldest first
    recordingState,  \* the background's mirror of the recording
    tabStatus,   \* the tab's status: "loading", "complete", "removed", "gone"
    restorePc,   \* position of the background's tabs.onUpdated handler
    reloads,     \* full page loads so far
    trackers,    \* the checkUrlChange closures installed in the current
                 \* page, oldest first: the lastUrl of each
    carried,     \* history: what a page torn down while recording held
    peer,        \* the Recorder instance of the page in a second tab
    page,        \* the elements of the page, in document order, with the
                 \* shadow roots and frame documents they hold
    selectorSet, \* the selector set handed to, or built by, SelectorEngine
    element,     \* the element handed to generateSelectors, or the one
                 \* findElement returned
    scaling,     \* a call of TimingEngine.scaleDelay: its arguments and
                 \* what it returned
    finding,     \* a call of Player.findElementWithRetry: its loop counter,
                 \* its position, the wait it is in and the waits it has made
    settling,    \* a call of Player.handleNavigation: the document it runs
                 \* in, its position, the closure of its waitForPageLoad
    returnedLog  \* the array the last stop() of the current page returned,
                 \* and whether the recorder's this.actions is still that array

replayVars == <<player, calls>>

libVars == <<page, selectorSet, element, scaling, finding, settling>>

captureVars == <<injected, recorder, clock, channel, recordingState,
                 tabStatus, restorePc, reloads, trackers, carried, peer,
                 returnedLog>>

vars == <<player, calls, location, response, injected, recorder, clock,
          channel, recordingState, tabStatus, restorePc, reloads, trackers,
          carried, peer, page, selectorSet, element, scaling, finding,
          settling, returnedLog>>

(***************************************************************************)
(* Bounds of the model.                                                    *)
(***************************************************************************)
MaxInFlight == 2     \* play() invocations in flight at once
MaxLogLen == 2       \* longest log handed to play()
MaxTime == 4         \* largest reading of a page's clock, in ticks
TickMs == 500        \* milliseconds of performance.now() in one tick
MaxTrackers == 2     \* start() calls in one page
MaxSyncLen == 2      \* longest action list of a mirror or a SYNC_ACTIONS payload
MaxChannel == 3      \* messages to the background in flight at once
MaxReloads == 1      \* full page loads after the first
MaxNodes == 2        \* elements of one document, shadow root or frame document
MaxMatched == 2      \* strategies of one selector set that one element satisfies
MaxInner == 1        \* elements of one shadow root or frame document
MaxClasses == 4      \* class tokens of one element
MaxDelay == 30       \* largest numerator of the delays handed to scaleDelay

(***************************************************************************)
(* Inputs.                                                                 *)
(***************************************************************************)
Speeds == {1, 2}
DocStates == {"absent", "hidden", "ready"}

NoLocator == "-"
NoUrl == "-"

ClickGo ==
    [type |-> "click", selectors |-> "#go", url |-> "/start",
     timing |-> [timestamp |-> 1, delay |-> 0]]
NavNext ==
    [type |-> "navigation", selectors |-> NoLocator, url |-> "/next",
     timing |-> [timestamp |-> 2, delay |-> 16]]

ActionAlphabet == {ClickGo, NavNext}

RECURSIVE SeqsUpTo(_, _)
SeqsUpTo(S, n) ==
    IF n = 0 THEN {<<>>}
    ELSE LET shorter == SeqsUpTo(S, n - 1)
         IN  shorter \cup {Append(s, x) : s \in {t \in shorter : Len(t) = n - 1}, x \in S}

Logs == SeqsUpTo(ActionAlphabet, MaxLogLen)

(***************************************************************************)
(* Player                                                                  *)
(***************************************************************************)
Null == "null"

\* new AbortController(), and the same controller after abort()
LiveController == "live"
AbortedController == "aborted"

\* new Player()
PlayerInit ==
    [isPlaying |-> FALSE, currentStep |-> 0, actions |-> <<>>,
     playbackSpeed |-> 1, abortController |-> Null]

\* Player.cleanup()
cleanup(p) ==
    [p EXCEPT !.isPlaying = FALSE, !.currentStep = 0, !.abortController = Null]

\* findElementWithRetry(selectors, stepNumber, maxRetries = 8)
maxRetries == 8

\* results of play()
NoResult == [success |-> FALSE, error |-> "-", stepsExecuted |-> -1]
Completed(n) == [success |-> TRUE, error |-> "", stepsExecuted |-> n]
Failure(msg, step) == [success |-> FALSE, error |-> msg, stepsExecuted |-> step]

ErrAlreadyPlaying == "Already playing"
ErrEmptyLog == "No actions to play"
ErrAborted == "Playback aborted"
ErrNotFound == "Element not found"
ErrNullSignal == "Cannot read properties of null (reading 'signal')"

CallIds == 1..Len(calls)

\* no inter-action wait was made
NoWait == [n |-> 0, d |-> 1]

NewCall(log, speed) ==
    [pc |-> "start", i |-> 0, log |-> log, speed |-> speed, attempt |-> 0,
     wait |-> NoWait,       \* the duration of the inter-action wait begun last
     ran |-> <<>>,          \* history: the indices whose executeAction began
     waits |-> <<>>,        \* history: the wait made before each of them
     abortReq |-> FALSE,    \* history: an abort was requested meanwhile
     overlap |-> FALSE,     \* history: started while another was in flight
     delayAbort |-> -1]     \* history: the index whose delay wait saw it

NoCall == NewCall(<<>>, 1)

NoResponse == [kind |-> "none", result |-> NoResult, call |-> NoCall]

RemoveAt(cs, c) == [k \in 1..(Len(cs) - 1) |-> IF k < c THEN cs[k] ELSE cs[k + 1]]

\* play() returns, or throws into catch: the result was built from
\* this.currentStep, then finally { cleanup() } runs, and
\* handleStartPlayback hands the result to sendResponse.
Return(c, p, cs, res) ==
    /\ calls' = RemoveAt(cs, c)
    /\ player' = cleanup(p)
    /\ response' = [kind |-> "returned", result |-> res, call |-> cs[c]]

LoopAdvance_skip(i) == i + 2

\* the for loop's i++
LoopAdvance(i) == i + 1

\* the value returned as stepsExecuted when the loop ran to its end
StepsOnSuccess(log) == Len(log)

\* action.timing && action.timing.delay > 0
HasDelay(action) == action.timing.delay > 0

\* A JavaScript number that TimingEngine divides: a fraction n/d in lowest
\* terms, d > 0
RECURSIVE GCD(_, _)
GCD(a, b) == IF b = 0 THEN a ELSE GCD(b, a % b)

Fraction(n, d) ==
    LET g == GCD(IF n < 0 THEN -n ELSE n, d)
    IN  IF g = 0 THEN [n |-> 0, d |-> 1] ELSE [n |-> n \div g, d |-> d \div g]

Whole(n) == Fraction(n, 1)

\* a / b for b > 0, and a < b
Quotient(a, b) == Fraction(a.n * b.d, a.d * b.n)
Less(a, b) == a.n * b.d < b.n * a.d

scaleDelay_floorless(delay, speed) == Quotient(delay, speed)

\* TimingEngine.scaleDelay(delay, speed):
\* const scaled = delay / speed; return Math.max(10, scaled)
scaleDelay(delay, speed) ==
    LET scaled == Quotient(delay, speed)
    IN  IF Less(Whole(10), scaled) THEN scaled ELSE Whole(10)

\* no value yet
Undefined == [n |-> 0, d |-> 0]

ScaleCall(delay, speed, scaled) == [delay |-> delay, speed |-> speed, scaled |-> scaled]
NoScaling == ScaleCall(Undefined, Undefined, Undefined)

\* const scaledDelay = TimingEngine.scaleDelay(action.timing.delay, speed),
\* speed being the parameter of this play() call; the delays and speeds of
\* the replayed logs are whole numbers
scaledDelay(call, p, action) ==
    scaleDelay(Whole(action.timing.delay), Whole(call.speed))

\* One pass through the head of the for loop of play() with loop variable i
\* (0-based), run up to the next await.  p and cs are the Player fields and
\* the invocations as the code that ran just before left them.
LoopHead(c, i, p, cs) ==
    LET log == cs[c].log IN
    IF i >= Len(log)
    THEN Return(c, p, cs, Completed(StepsOnSuccess(log)))
    ELSE IF p.abortController = Null
    THEN \* this.abortController.signal throws a TypeError
         Return(c, p, cs, Failure(ErrNullSignal, p.currentStep))
    ELSE IF p.abortController = AbortedController
    THEN Return(c, p, cs, Failure(ErrAborted, p.currentStep))
    ELSE IF HasDelay(log[i + 1])
    THEN \* await TimingEngine.wait(scaledDelay)
         /\ calls' = [cs EXCEPT ![c].pc = "delay", ![c].i = i,
                                ![c].wait = scaledDelay(cs[c], p, log[i + 1])]
         /\ player' = [p EXCEPT !.currentStep = i]
         /\ response' = NoResponse
    ELSE \* executeAction() is entered and runs to its wait(100)
         /\ calls' = [cs EXCEPT ![c].pc = "settle", ![c].i = i,
                                ![c].ran = Append(@, i),
                                ![c].waits = Append(@, NoWait)]
         /\ player' = [p EXCEPT !.currentStep = i]
         /\ response' = NoResponse

\* play(actions, speed) is refused by one of its two precondition checks
PlayRefused(log) == player.isPlaying \/ Len(log) = 0

PlayRefusal_emptyFirst(log) ==
    IF Len(log) = 0 THEN Failure(ErrEmptyLog, -1)
    ELSE Failure(ErrAlreadyPlaying, -1)

PlayRefusal(log) ==
    IF player.isPlaying THEN Failure(ErrAlreadyPlaying, -1)
    ELSE Failure(ErrEmptyLog, -1)

\* the fields play() sets once past its checks
PlayStarted(p, log, speed) ==
    [p EXCEPT !.isPlaying = TRUE, !.actions = log, !.playbackSpeed = speed,
              !.currentStep = 0, !.abortController = LiveController]

\* handleStartPlayback -> player.play(actions, speed): the synchronous part,
\* from the call to the first await (or to the early return).
Play(log, speed) ==
    IF PlayRefused(log)
    THEN /\ response' = [kind |-> "refused", result |-> PlayRefusal(log), call |-> NoCall]
         /\ UNCHANGED <<player, calls, location>>
         /\ UNCHANGED <<captureVars, libVars>>
    ELSE /\ Len(calls) < MaxInFlight
         /\ LoopHead(Len(calls) + 1, 0, PlayStarted(player, log, speed),
                     Append(calls, [NewCall(log, speed) EXCEPT !.overlap = calls # <<>>]))
         /\ UNCHANGED location
         /\ UNCHANGED <<captureVars, libVars>>

\* await TimingEngine.wait(scaledDelay) resolves: executeAction() is entered
\* and runs to its wait(100).
DelayElapsed(c) ==
    /\ calls[c].pc = "delay"
    /\ calls' = [calls EXCEPT ![c].pc = "settle", ![c].ran = Append(@, calls[c].i),
                                ![c].waits = Append(@, calls[c].wait)]
    /\ response' = NoResponse
    /\ UNCHANGED <<player, location>>
    /\ UNCHANGED <<captureVars, libVars>>

\* isElementInteractable(element), on what the locator resolves to
isElementInteractable_any(d) == TRUE

isElementInteractable(d) == d = "ready"

\* SelectorEngine.findElement(selectors) returned an element
Found(d) == d # "absent"

\* One attempt of findElementWithRetry: "element" (returned), "retry"
\* (wait, then the next attempt) or "null" (loop exhausted).
Attempt(d, attempt) ==
    IF Found(d) /\ isElementInteractable(d) THEN "element"
    ELSE IF Found(d) /\ attempt >= maxRetries THEN "element"
    ELSE IF attempt < maxRetries THEN "retry"
    ELSE "null"

\* const waitTime = Math.min(attempt * 300, 2000)
BackoffStep == 300
BackoffCap == 2000
Min(a, b) == IF a < b THEN a ELSE b
backoff(attempt) == Min(attempt * BackoffStep, BackoffCap)

\* await TimingEngine.wait(attempt * 300) of the catch block
backoffCaught(attempt) == attempt * BackoffStep

\* await TimingEngine.wait(100) after each window.scrollBy
ScrollWait == 100

\* what one attempt meets: the locator resolves as in DocStates, or
\* SelectorEngine.findElement throws (isElementInteractable catches its own
\* exceptions and answers false)
Meets == DocStates \cup {"throws"}

ErrNotInteractable == "Element not interactable"
ErrElementNotFound == "Element not found"
ErrThrown == "error.message"

\* no call of findElementWithRetry is under consideration
NoFinding ==
    [pc |-> "idle", attempt |-> 0, lastError |-> Null, wait |-> 0, waits |-> <<>>,
     result |-> "-"]

\* findElementWithRetry(selectors, stepNumber) entered: let lastError = null;
\* attempt = 1
FindingInit == [NoFinding EXCEPT !.pc = "attempt", !.attempt = 1]

\* await TimingEngine.wait(ms) at position pc of the iteration f.attempt
Waiting(f, pc, ms) ==
    [f EXCEPT !.pc = pc, !.wait = ms,
              !.waits = Append(@, [after |-> f.attempt, kind |-> pc, ms |-> ms])]

\* return element / return null
Returning(f, result) == [f EXCEPT !.pc = "returned", !.wait = 0, !.result = result]

\* the end of an iteration: attempt++, attempt <= maxRetries, else the
\* console.error and return null after the loop
NextAttempt(f) ==
    IF f.attempt + 1 <= maxRetries
    THEN [f EXCEPT !.pc = "attempt", !.attempt = @ + 1, !.wait = 0]
    ELSE Returning(f, "null")

\* "If not found, wait and retry with progressive backoff"
Missed(f) ==
    IF f.attempt < maxRetries
    THEN Waiting(f, "backoff", backoff(f.attempt))
    ELSE NextAttempt(f)

\* the try block and the catch block of one iteration, up to its first wait
Attempted(f, d) ==
    IF d = "throws"
    THEN LET g == [f EXCEPT !.lastError = ErrThrown]
         IN  IF f.attempt < maxRetries
             THEN Waiting(g, "caught", backoffCaught(f.attempt))
             ELSE NextAttempt(g)
    ELSE IF Found(d)
    THEN IF isElementInteractable(d) THEN Returning(f, "element")
         ELSE IF f.attempt < maxRetries
              THEN Missed([f EXCEPT !.lastError = ErrNotInteractable])
              ELSE Returning(f, "element")
    ELSE Missed([f EXCEPT !.lastError = ErrElementNotFound])

\* a wait of the iteration resolves
Resumed(f) ==
    CASE f.pc = "backoff" -> IF f.attempt > 3
                             THEN Waiting(f, "scrolledDown", ScrollWait)
                             ELSE NextAttempt(f)
      [] f.pc = "scrolledDown" -> Waiting(f, "scrolledBack", ScrollWait)
      [] OTHER -> NextAttempt(f)

\* what the attempt just made met
Met(d) == [kind |-> "met", met |-> d]

\* one attempt of the loop is made, and meets d
TryFind(d) ==
    /\ finding.pc = "attempt"
    /\ finding' = Attempted(finding, d)
    /\ response' = Met(d)
    /\ UNCHANGED <<page, selectorSet, element, scaling, settling>>
    /\ UNCHANGED <<replayVars, captureVars, location>>

\* the timer of the wait in progress fires
WaitElapsed ==
    /\ finding.pc \in {"backoff", "caught", "scrolledDown", "scrolledBack"}
    /\ finding' = Resumed(finding)
    /\ response' = NoResponse
    /\ UNCHANGED <<page, selectorSet, element, scaling, settling>>
    /\ UNCHANGED <<replayVars, captureVars, location>>

\* setTimeout(..., 15000) of waitForPageLoad, await TimingEngine.wait(1000)
\* of handleNavigation
LoadTimeoutMs == 15000
SettleMs == 1000

\* no play() at a navigation action is under consideration
NoSettling ==
    [pc |-> "idle", i |-> 0, log |-> <<>>, alive |-> FALSE, leaving |-> FALSE,
     readyState |-> "complete", loadFired |-> TRUE, closures |-> <<>>, waited |-> 0]

\* play() on a log of navigation actions, in a document whose readyState is
\* as given, at the executeAction of the first.  Each entry of the log tells
\* how action.url relates to window.location.href when its turn comes:
\* "same" (equal, or no url), "fragment" (differs in the fragment only),
\* "document" (another document).
SettlingInit(readyState, log) ==
    [NoSettling EXCEPT !.pc = "navigation", !.i = 1, !.log = log, !.alive = TRUE,
                       !.readyState = readyState, !.loadFired = FALSE]

\* the closure of one waitForPageLoad() call: let resolved = false, the two
\* listeners, the timer; resolves counts the calls of resolve()
NewClosure ==
    [resolved |-> FALSE, resolves |-> 0, timer |-> 0, loadListener |-> FALSE,
     stateListener |-> FALSE]

\* resolve() of the promise of the k-th waitForPageLoad: the call settles
\* the promise if it is the pending one, and handleNavigation then goes on
\* to its wait(1000)
resolve(w, k) ==
    LET awaited == k = Len(w.closures) /\ w.pc = "loading"
    IN  [w EXCEPT !.closures[k].resolves = @ + 1,
                  !.pc = IF awaited THEN "settle" ELSE @,
                  !.waited = IF awaited THEN SettleMs ELSE @]

\* waitForPageLoad(): the executor of its promise
waitForPageLoad(w) ==
    LET k == Len(w.closures) + 1
        called == [w EXCEPT !.pc = "loading", !.closures = Append(@, NewClosure)]
    IN  IF w.readyState = "complete"
        THEN resolve(called, k)
        ELSE [called EXCEPT !.closures[k].loadListener = TRUE,
                            !.closures[k].stateListener = TRUE,
                            !.closures[k].timer = LoadTimeoutMs]

\* loadHandler of the k-th closure, registered with { once: true }
loadHandler(w, k) ==
    LET fired == [w EXCEPT !.closures[k].loadListener = FALSE]
    IN  IF ~w.closures[k].resolved
        THEN resolve([fired EXCEPT !.closures[k].resolved = TRUE], k)
        ELSE fired

\* stateHandler of the k-th closure
stateHandler(w, k) ==
    IF w.readyState = "complete" /\ ~w.closures[k].resolved
    THEN resolve([w EXCEPT !.closures[k].resolved = TRUE,
                           !.closures[k].stateListener = FALSE,
                           !.closures[k].loadListener = FALSE], k)
    ELSE w

\* the callback of the 15 s timer of the k-th closure
timeoutHandler(w, k) ==
    IF ~w.closures[k].resolved
    THEN resolve([w EXCEPT !.closures[k].resolved = TRUE,
                           !.closures[k].stateListener = FALSE,
                           !.closures[k].loadListener = FALSE], k)
    ELSE w

\* an event is dispatched to the listeners registered for it, oldest first
RECURSIVE stateHandlersFrom(_, _)
stateHandlersFrom(w, k) ==
    IF k > Len(w.closures) THEN w
    ELSE stateHandlersFrom(IF w.closures[k].stateListener THEN stateHandler(w, k) ELSE w,
                           k + 1)

RECURSIVE loadHandlersFrom(_, _)
loadHandlersFrom(w, k) ==
    IF k > Len(w.closures) THEN w
    ELSE loadHandlersFrom(IF w.closures[k].loadListener THEN loadHandler(w, k) ELSE w,
                          k + 1)

\* executeAction returned: the for loop of play() goes to its next action
\* (through the delay wait and wait(100), which end by themselves), or
\* play() returns
NextAction(w) ==
    IF w.i < Len(w.log)
    THEN [w EXCEPT !.pc = "navigation", !.i = @ + 1, !.waited = 0]
    ELSE [w EXCEPT !.pc = "returned", !.waited = 0]

\* Player.handleNavigation(action, stepNumber) up to its first await
Navigate ==
    /\ settling.alive /\ settling.pc = "navigation"
    /\ settling' =
          IF settling.log[settling.i] = "same"
          THEN NextAction(settling)
          ELSE \* window.location.href = targetUrl; await this.waitForPageLoad()
               waitForPageLoad([settling EXCEPT
                                  !.leaving = @ \/ settling.log[settling.i] = "document"])
    /\ response' = NoResponse
    /\ UNCHANGED <<page, selectorSet, element, scaling, finding>>
    /\ UNCHANGED <<replayVars, captureVars, location>>

\* the document goes on loading: readystatechange is dispatched
ReadyStateChange ==
    /\ settling.alive /\ settling.readyState # "complete"
    /\ LET next == IF settling.readyState = "loading" THEN "interactive" ELSE "complete"
       IN  settling' = stateHandlersFrom([settling EXCEPT !.readyState = next], 1)
    /\ response' = NoResponse
    /\ UNCHANGED <<page, selectorSet, element, scaling, finding>>
    /\ UNCHANGED <<replayVars, captureVars, location>>

\* the window's load event is dispatched
LoadEvent ==
    /\ settling.alive /\ settling.readyState = "complete" /\ ~settling.loadFired
    /\ settling' = loadHandlersFrom([settling EXCEPT !.loadFired = TRUE], 1)
    /\ response' = NoResponse
    /\ UNCHANGED <<page, selectorSet, element, scaling, finding>>
    /\ UNCHANGED <<replayVars, captureVars, location>>

\* the 15 s timer of the k-th waitForPageLoad fires
LoadTimeout(k) ==
    /\ settling.alive /\ k \in DOMAIN settling.closures
    /\ settling.closures[k].timer > 0
    /\ settling' = timeoutHandler([settling EXCEPT !.closures[k].timer = 0], k)
    /\ response' = NoResponse
    /\ UNCHANGED <<page, selectorSet, element, scaling, finding>>
    /\ UNCHANGED <<replayVars, captureVars, location>>

\* wait(1000) resolves; handleNavigation returns after its URL comparison,
\* and executeAction with it
SettleElapsed ==
    /\ settling.alive /\ settling.pc = "settle"
    /\ settling' = NextAction(settling)
    /\ response' = NoResponse
    /\ UNCHANGED <<page, selectorSet, element, scaling, finding>>
    /\ UNCHANGED <<replayVars, captureVars, location>>

\* the navigation that window.location.href = targetUrl began commits: the
\* document is unloaded, and with it the content script, its timers, its
\* listeners and the play() call in flight
Unload ==
    /\ settling.alive /\ settling.leaving
    /\ settling' = [settling EXCEPT !.alive = FALSE, !.closures = <<>>]
    /\ response' = NoResponse
    /\ UNCHANGED <<page, selectorSet, element, scaling, finding>>
    /\ UNCHANGED <<replayVars, captureVars, location>>

\* handleClick / handleInput / handleKeypress from the call of
\* findElementWithRetry on: the attempt numbered `attempt` is made now, and
\* the locator resolves to d at this moment.
Resolve(c, attempt, d) ==
    LET out == Attempt(d, attempt)
    IN  CASE out = "element" ->
                \* the handler goes on with the element, through its waits
                /\ calls' = [calls EXCEPT ![c].pc = "act", ![c].attempt = 0]
                /\ response' = NoResponse
                /\ UNCHANGED player
          [] out = "retry" ->
                /\ calls' = [calls EXCEPT ![c].pc = "find", ![c].attempt = attempt]
                /\ response' = NoResponse
                /\ UNCHANGED player
          [] OTHER ->
                \* throw new Error(`Element not found for step ...`)
                Return(c, player, [calls EXCEPT ![c].attempt = attempt],
                       Failure(ErrNotFound, player.currentStep))

\* executeAction after its wait(100): the switch on action.type
Dispatch(c, d) ==
    /\ calls[c].pc = "settle"
    /\ UNCHANGED <<captureVars, libVars>>
    /\ LET act == calls[c].log[calls[c].i + 1] IN
       CASE act.type = "navigation" ->
                IF act.url # NoUrl /\ act.url # location
                THEN \* window.location.href = targetUrl; await waitForPageLoad()
                     /\ location' = act.url
                     /\ calls' = [calls EXCEPT ![c].pc = "act"]
                     /\ response' = NoResponse
                     /\ UNCHANGED player
                ELSE /\ LoopHead(c, LoopAdvance(calls[c].i), player, calls)
                     /\ UNCHANGED location
         [] act.type \in {"click", "input", "keypress"} ->
                /\ Resolve(c, 1, d)
                /\ UNCHANGED location
         [] OTHER ->
                \* default: console.warn, nothing else
                /\ LoopHead(c, LoopAdvance(calls[c].i), player, calls)
                /\ UNCHANGED location

\* the backoff wait of findElementWithRetry resolves: next attempt
RetryElapsed(c, d) ==
    /\ calls[c].pc = "find"
    /\ Resolve(c, calls[c].attempt + 1, d)
    /\ UNCHANGED location
    /\ UNCHANGED <<captureVars, libVars>>

\* the handler's remaining waits resolve and executeAction returns: the
\* loop goes to its next iteration
ActionDone(c) ==
    /\ calls[c].pc = "act"
    /\ LoopHead(c, LoopAdvance(calls[c].i), player, calls)
    /\ UNCHANGED location
    /\ UNCHANGED <<captureVars, libVars>>

\* history: an abort request reaches the invocations in flight
NoteAbort(cs) ==
    [c \in DOMAIN cs |->
        [cs[c] EXCEPT !.abortReq = TRUE,
                      !.delayAbort = IF cs[c].pc = "delay" /\ @ = -1
                                     THEN cs[c].i ELSE @]]

\* Player.pause(): if (!this.isPlaying) return; abortController.abort()
pause(p) ==
    IF p.isPlaying /\ p.abortController # Null
    THEN [p EXCEPT !.abortController = AbortedController]
    ELSE p

\* Player.stop(): pause(), then cleanup()
stop(p) == cleanup(pause(p))

\* Player.pause()
Pause ==
    /\ player' = pause(player)
    /\ calls' = IF player.isPlaying THEN NoteAbort(calls) ELSE calls
    /\ response' = NoResponse
    /\ UNCHANGED location
    /\ UNCHANGED <<captureVars, libVars>>

\* handleStopPlayback -> player.stop(); sendResponse({ success: true })
StopPlayback ==
    /\ player' = stop(player)
    /\ calls' = IF player.isPlaying THEN NoteAbort(calls) ELSE calls
    /\ response' = NoResponse
    /\ UNCHANGED location
    /\ UNCHANGED <<captureVars, libVars>>

\* Player.setSpeed(speed)
setSpeed(p, speed) == [p EXCEPT !.playbackSpeed = speed]

\* handleSetSpeed -> player.setSpeed(speed); sendResponse({ success: true, speed })
SetSpeed(speed) ==
    /\ player' = setSpeed(player, speed)
    /\ response' = NoResponse
    /\ UNCHANGED <<calls, location>>
    /\ UNCHANGED <<captureVars, libVars>>

(***************************************************************************)
(* Recorder, content script and background mirror                          *)
(***************************************************************************)
Urls == {"/start", "/next"}

\* SelectorEngine.generateSelectors(element): the fields of the selector set
\* that the recorder compares; null for an attribute the element lacks
NullSel == "null"
NoSelectors == [id |-> NullSel, name |-> NullSel, css |-> NullSel]
GoButton == [id |-> "#go", name |-> NullSel, css |-> "button.go"]
EmailField == [id |-> "#email", name |-> NullSel, css |-> "input.email"]
PasswordField == [id |-> "#pass", name |-> NullSel, css |-> "input.pass"]
SearchField == [id |-> NullSel, name |-> "input[name=q]", css |-> "input.q"]

ClickTargets == {GoButton}
InputTargets == {EmailField, PasswordField, SearchField}
KeyTargets == {SearchField}

\* element.value at the time of an input event
Values == {"a", "ab"}
NoValue == "-"

\* TimingEngine.now() when the page's clock reads t ticks
Now(t) == t * TickMs

\* the one tab of the model, and recordingState.tabId = null
Tab == "tab"
OtherTab == "tab B"
NoTab == "-"

\* null in the recorder's and the mirror's time fields; every test the code
\* makes on them is a truthiness test, which null and 0 answer alike
NullTime == 0

\* new Recorder()
RecorderInit ==
    [isRecording |-> FALSE, actions |-> <<>>, startTime |-> NullTime,
     lastActionTime |-> NullTime, startUrl |-> NoUrl, currentUrl |-> NoUrl,
     syncInterval |-> FALSE]

\* the background's recordingState as declared, and after resetRecordingState()
\* (lastSyncTime, which the handlers write and nothing reads, is left out)
MirrorInit ==
    [isRecording |-> FALSE, tabId |-> NoTab, actions |-> <<>>,
     startUrl |-> NoUrl, startTime |-> NullTime]

resetRecordingState == MirrorInit

Range(s) == {s[k] : k \in DOMAIN s}

calculateDelay_signed(start, end) == end - start

\* TimingEngine.calculateDelay(start, end)
calculateDelay(start, end) == IF end - start > 0 THEN end - start ELSE 0

\* TimingEngine.createTimingData(type, timestamp, previousTimestamp)
createTimingData(timestamp, previousTimestamp) ==
    [timestamp |-> timestamp,
     delay |-> IF previousTimestamp # 0
               THEN calculateDelay(previousTimestamp, timestamp) ELSE 0]

\* messages of the content script to the background
Msg(type, actions, startUrl, startTime) ==
    [type |-> type, actions |-> actions, startUrl |-> startUrl, startTime |-> startTime,
     sender |-> Tab]

\* the messages as the second tab's content script sends them
FromOtherTab(msgs) == [k \in 1..Len(msgs) |-> [msgs[k] EXCEPT !.sender = OtherTab]]

RecordingStartedMsg(r) == Msg("RECORDING_STARTED", <<>>, r.startUrl, r.startTime)
SyncActionsMsg(r) == Msg("SYNC_ACTIONS", r.actions, NoUrl, NullTime)
RecordingStoppedMsg == Msg("RECORDING_STOPPED", <<>>, NoUrl, NullTime)

\* responses of the content script's command handlers
NoError == "-"
NoData == [actions |-> <<>>, startUrl |-> NoUrl, duration |-> -1, null |-> TRUE]
CommandResponse(kind, success, error, data) ==
    [kind |-> kind, success |-> success, error |-> error, data |-> data]

\* Recorder.start(), past its isRecording check
started(r, now, url) ==
    [r EXCEPT !.isRecording = TRUE, !.actions = <<>>, !.startTime = now,
              !.lastActionTime = now, !.startUrl = url, !.currentUrl = url,
              !.syncInterval = TRUE]

\* Recorder.stop(), past its isRecording check: the fields it leaves, the
\* messages it sends, the recordingData it returns
stopped(r) == [r EXCEPT !.isRecording = FALSE, !.syncInterval = FALSE]
StopMessages(r) == <<SyncActionsMsg(r), RecordingStoppedMsg>>
recordingData(r, now) ==
    [actions |-> r.actions, startUrl |-> r.startUrl,
     duration |-> now - r.startTime, null |-> FALSE]

\* Recorder.setupNavigationTracking(): let lastUrl = window.location.href in
\* a new checkUrlChange closure, which the six detectors call
setupNavigationTracking(ts, url) == Append(ts, url)

\* no stop() has returned in the current page
NoReturnedLog == [returned |-> FALSE, shared |-> FALSE, actions |-> <<>>]

\* stop(): recordingData = { actions: this.actions, ... }; return recordingData:
\* the caller holds the recorder's own array
returnedBy(r) == [returned |-> TRUE, shared |-> TRUE, actions |-> r.actions]

\* a write through this.actions (push, or an assignment to a field of its
\* last entry) that leaves the recorder r: the returned array shows it if it
\* is the same array
writtenThrough(rl, r) == IF rl.shared THEN [rl EXCEPT !.actions = r.actions] ELSE rl

assigned_inPlace(rl, r) == writtenThrough(rl, r)

\* this.actions = [] in start(), this.actions = data.actions || [] in
\* restore(): the field refers to another array, the returned one is left
\* as it is
assigned(rl, r) == [rl EXCEPT !.shared = FALSE]

\* START_RECORDING -> handleStartRecording -> recorder.start();
\* sendResponse({ success: true, state })
StartRecording ==
    /\ injected
    /\ Len(channel) < MaxChannel
    /\ IF recorder.isRecording
       THEN \* console.warn('Already recording'); return
            UNCHANGED <<recorder, channel, carried, trackers, returnedLog>>
       ELSE /\ Len(trackers) < MaxTrackers
            /\ recorder' = started(recorder, Now(clock), location)
            /\ returnedLog' = assigned(returnedLog, recorder')
            /\ trackers' = setupNavigationTracking(trackers, location)
            /\ channel' = Append(channel, RecordingStartedMsg(recorder'))
            /\ carried' = [carried EXCEPT !.active = FALSE]
    /\ response' = CommandResponse("startRecording", TRUE, NoError, NoData)
    /\ UNCHANGED <<injected, clock, recordingState, tabStatus, restorePc, reloads>>
    /\ UNCHANGED <<replayVars, libVars, peer, location>>

\* STOP_RECORDING -> handleStopRecording -> recorder.stop();
\* sendResponse({ success: true, data: recordingData })
StopRecording ==
    /\ injected
    /\ Len(channel) + 2 <= MaxChannel
    /\ IF ~recorder.isRecording
       THEN \* console.warn('Not recording'); return null
            /\ response' = CommandResponse("stopRecording", TRUE, NoError, NoData)
            /\ UNCHANGED <<recorder, channel, returnedLog>>
       ELSE /\ recorder' = stopped(recorder)
            /\ returnedLog' = returnedBy(recorder')
            /\ channel' = channel \o StopMessages(recorder)
            /\ response' = CommandResponse("stopRecording", TRUE, NoError,
                                           recordingData(recorder, Now(clock)))
    \* history: the stop() that follows a reload has been answered
    /\ carried' = IF tabStatus = "complete" /\ restorePc = "idle" /\ channel = <<>>
                  THEN [carried EXCEPT !.active = FALSE] ELSE carried
    /\ UNCHANGED <<injected, clock, recordingState, tabStatus, restorePc, reloads,
                   trackers>>
    /\ UNCHANGED <<replayVars, libVars, peer, location>>

\* an action of the log, with the fields the model follows
Action(type, selectors, value, url, timing) ==
    [type |-> type, selectors |-> selectors, value |-> value, url |-> url,
     timing |-> timing]

\* a raw signal handled by a listener of the recorder
Signal(kind, target, value, now) ==
    [kind |-> kind, target |-> target, value |-> value, now |-> now]

\* Recorder.handleClick(event), on an element of the page, at time now
handleClick(r, target, now, url) ==
    [r EXCEPT !.actions = Append(@, Action("click", target, NoValue, url,
                                           createTimingData(now, r.lastActionTime))),
              !.lastActionTime = now]

\* a click in the page at tick t: the capture-phase listener runs if it is
\* attached
CaptureClick(target, t) ==
    /\ injected /\ recorder.isRecording
    /\ t > clock /\ t <= MaxTime
    /\ clock' = t
    /\ recorder' = handleClick(recorder, target, Now(t), location)
    /\ returnedLog' = writtenThrough(returnedLog, recorder')
    /\ response' = NoResponse
    /\ UNCHANGED <<injected, channel, recordingState, tabStatus, restorePc, reloads,
                   trackers, carried>>
    /\ UNCHANGED <<replayVars, libVars, peer, location>>

\* (now - lastAction.timing.timestamp) < 1000
MergeWindow == 1000

\* Recorder.selectorsMatch(sel1, sel2)
selectorsMatch(sel1, sel2) ==
    sel1.id = sel2.id \/ sel1.name = sel2.name \/ sel1.css = sel2.css

WithinWindow_inclusive(now, lastTimestamp) == now - lastTimestamp <= MergeWindow

\* the time test of the merge in handleInput
WithinWindow(now, lastTimestamp) == now - lastTimestamp < MergeWindow

\* handleInput merges the event into the last action of the log
Merges(r, target, now) ==
    /\ Len(r.actions) > 0
    /\ r.actions[Len(r.actions)].type = "input"
    /\ selectorsMatch(r.actions[Len(r.actions)].selectors, target)
    /\ WithinWindow(now, r.actions[Len(r.actions)].timing.timestamp)

\* Recorder.handleInput(event), on an INPUT or TEXTAREA holding value
handleInput(r, target, value, now, url) ==
    IF Merges(r, target, now)
    THEN [r EXCEPT !.actions[Len(r.actions)].value = value,
                   !.actions[Len(r.actions)].timing.timestamp = now]
    ELSE [r EXCEPT !.actions = Append(@, Action("input", target, value, url,
                                                createTimingData(now, r.lastActionTime))),
                   !.lastActionTime = now]

\* an input event in the page at tick t
CaptureInput(target, value, t) ==
    /\ injected /\ recorder.isRecording
    /\ t > clock /\ t <= MaxTime
    /\ clock' = t
    /\ recorder' = handleInput(recorder, target, value, Now(t), location)
    /\ returnedLog' = writtenThrough(returnedLog, recorder')
    /\ response' = Signal("input", target, value, Now(t))
    /\ UNCHANGED <<injected, channel, recordingState, tabStatus, restorePc, reloads,
                   trackers, carried>>
    /\ UNCHANGED <<replayVars, libVars, peer, location>>

\* Recorder.handleKeyDown(event) for the Enter key
handleKeyDown(r, target, now, url) ==
    [r EXCEPT !.actions = Append(@, Action("keypress", target, NoValue, url,
                                           createTimingData(now, r.lastActionTime))),
              !.lastActionTime = now]

\* a keydown of Enter in the page at tick t
CaptureKey(target, t) ==
    /\ injected /\ recorder.isRecording
    /\ t > clock /\ t <= MaxTime
    /\ clock' = t
    /\ recorder' = handleKeyDown(recorder, target, Now(t), location)
    /\ returnedLog' = writtenThrough(returnedLog, recorder')
    /\ response' = NoResponse
    /\ UNCHANGED <<injected, channel, recordingState, tabStatus, restorePc, reloads,
                   trackers, carried>>
    /\ UNCHANGED <<replayVars, libVars, peer, location>>

NavigationIgnored_always(r, newUrl) == ~r.isRecording

\* handleNavigation: if (!this.isRecording || newUrl === this.currentUrl) return
NavigationIgnored(r, newUrl) == ~r.isRecording \/ newUrl = r.currentUrl

\* Recorder.handleNavigation(newUrl), past its guard
handleNavigation(r, newUrl, now) ==
    [r EXCEPT !.actions = Append(@, Action("navigation", NoSelectors, NoValue, newUrl,
                                           createTimingData(now, r.lastActionTime))),
              !.lastActionTime = now,
              !.currentUrl = newUrl]

\* the page changes its URL without a reload (history API, hash, back/forward)
UrlChange(url) ==
    /\ injected /\ tabStatus = "complete"
    /\ url # location
    /\ location' = url
    /\ response' = NoResponse
    /\ UNCHANGED captureVars
    /\ UNCHANGED <<replayVars, libVars>>

\* One of the detectors of the k-th closure fires at tick t: checkUrlChange
\* runs, and with it handleNavigation and its immediate sync.
DetectorFires(k, t) ==
    /\ injected /\ recorder.isRecording
    /\ k \in DOMAIN trackers
    /\ IF location = trackers[k]
       THEN /\ t = clock
            /\ UNCHANGED <<recorder, channel, trackers, clock, returnedLog>>
       ELSE /\ trackers' = [trackers EXCEPT ![k] = location]
            /\ IF NavigationIgnored(recorder, location)
               THEN /\ t = clock
                    /\ UNCHANGED <<recorder, channel, clock, returnedLog>>
               ELSE /\ t > clock /\ t <= MaxTime
                    /\ Len(channel) < MaxChannel
                    /\ clock' = t
                    /\ recorder' = handleNavigation(recorder, location, Now(t))
                    /\ returnedLog' = writtenThrough(returnedLog, recorder')
                    /\ channel' = Append(channel, SyncActionsMsg(recorder'))
    /\ response' = NoResponse
    /\ UNCHANGED <<injected, recordingState, tabStatus, restorePc, reloads, carried>>
    /\ UNCHANGED <<replayVars, libVars, peer, location>>

\* the setInterval callback of startStateSync fires
SyncTick ==
    /\ injected /\ recorder.syncInterval
    /\ Len(channel) < MaxChannel
    /\ channel' = IF recorder.isRecording /\ Len(recorder.actions) > 0
                  THEN Append(channel, SyncActionsMsg(recorder)) ELSE channel
    /\ response' = NoResponse
    /\ UNCHANGED <<injected, recorder, clock, recordingState, tabStatus, restorePc, reloads,
                   trackers, carried>>
    /\ UNCHANGED <<replayVars, libVars, peer, location, returnedLog>>

\* handleRecordingStarted(tabId, data)
handleRecordingStarted(m, tabId, data) ==
    [m EXCEPT !.isRecording = TRUE, !.tabId = tabId, !.startUrl = data.startUrl,
              !.startTime = data.startTime, !.actions = <<>>]

\* handleRecordingStopped()
handleRecordingStopped(m) == resetRecordingState

\* handleSyncActions(data): the incoming actions whose timestamp is falsy or
\* not among the stored truthy ones are pushed
existingTimestamps_none(m) == {}

existingTimestamps(m) == {a.timing.timestamp : a \in Range(m.actions)} \ {0}

newActions(m, data) ==
    LET isNew(a) == a.timing.timestamp = 0 \/ a.timing.timestamp \notin existingTimestamps(m)
    IN  SelectSeq(data.actions, isNew)

handleSyncActions(m, data) ==
    IF ~m.isRecording THEN m
    ELSE [m EXCEPT !.actions = @ \o newActions(m, data)]

ErrNotRecording == "Not recording"

\* what a handler of the background passes to sendResponse: success, error
Answer(success, error) == [kind |-> "answer", success |-> success, error |-> error]

\* the answer to a message: handleSyncActions refuses when the mirror is not
\* recording, handleRecordingStarted and handleRecordingStopped never refuse
answered_always(m, request) == Answer(TRUE, NoError)

answered(m, request) ==
    IF request.type = "SYNC_ACTIONS" /\ ~m.isRecording
    THEN Answer(FALSE, ErrNotRecording)
    ELSE Answer(TRUE, NoError)

\* chrome.runtime.onMessage of the background: the oldest message is handled
Deliver ==
    /\ channel # <<>>
    /\ LET request == Head(channel) IN
       recordingState' =
          CASE request.type = "RECORDING_STARTED" -> handleRecordingStarted(recordingState, request.sender, request)
            [] request.type = "RECORDING_STOPPED" -> handleRecordingStopped(recordingState)
            [] request.type = "SYNC_ACTIONS" -> handleSyncActions(recordingState, request)
            [] OTHER -> recordingState
    /\ channel' = Tail(channel)
    /\ response' = answered(recordingState, Head(channel))
    /\ UNCHANGED <<injected, recorder, clock, tabStatus, restorePc, reloads, trackers, carried>>
    /\ UNCHANGED <<replayVars, libVars, peer, location, returnedLog>>

\* the beforeunload listener of the content script: recorder.destroy() if
\* recording (stop(), then the timers and observers are cleared),
\* player.destroy() if playing; what leaves the page are stop()'s messages
BeforeUnloadMessages ==
    IF injected /\ recorder.isRecording THEN StopMessages(recorder) ELSE <<>>

\* The tab is reloaded or navigates to url: beforeunload runs, the page with
\* its content script, recorder and player is discarded, the next document
\* starts loading with a new time origin.
Reload(url) ==
    /\ tabStatus = "complete" /\ restorePc = "idle"
    /\ reloads < MaxReloads
    /\ Len(channel) + Len(BeforeUnloadMessages) <= MaxChannel
    /\ channel' = channel \o BeforeUnloadMessages
    /\ carried' = IF injected /\ recorder.isRecording
                  THEN [active |-> TRUE, log |-> recorder.actions,
                        mirrored |-> recordingState.isRecording,
                        mirror |-> recordingState.actions]
                  ELSE carried
    /\ injected' = FALSE
    /\ recorder' = RecorderInit
    /\ player' = PlayerInit
    /\ calls' = <<>>
    /\ clock' = 1
    /\ location' = url
    /\ tabStatus' = "loading"
    /\ reloads' = reloads + 1
    /\ trackers' = <<>>
    /\ response' = NoResponse
    /\ UNCHANGED <<recordingState, restorePc>>
    /\ returnedLog' = NoReturnedLog
    /\ UNCHANGED <<libVars, peer>>

\* chrome.tabs.onUpdated with status 'complete': the listener returns at once
\* unless the mirror records this tab, else it runs to its wait(500)
TabComplete ==
    /\ tabStatus = "loading"
    /\ tabStatus' = "complete"
    /\ restorePc' = IF ~recordingState.isRecording \/ recordingState.tabId # Tab
                    THEN "idle" ELSE "wait500"
    /\ response' = NoResponse
    /\ UNCHANGED <<injected, recorder, clock, channel, recordingState, reloads, trackers,
                   carried>>
    /\ UNCHANGED <<replayVars, libVars, peer, location, returnedLog>>

\* injectContentScript(tabId): PING answered 'ready' -> return, else
\* executeScript, whose injector builds new Recorder() and new Player()
injectContentScript ==
    /\ injected' = TRUE
    /\ recorder' = IF injected THEN recorder ELSE RecorderInit
    /\ player' = IF injected THEN player ELSE PlayerInit
    /\ calls' = calls

\* INJECT_CONTENT_SCRIPT from the popup -> handleInjectContentScript
Inject ==
    /\ ~injected
    /\ injectContentScript
    /\ response' = NoResponse
    /\ UNCHANGED <<clock, channel, recordingState, tabStatus, restorePc, reloads,
                   trackers, carried>>
    /\ UNCHANGED <<libVars, peer, location, returnedLog>>

\* the onUpdated listener after wait(500): await injectContentScript(tabId)
RestoreInject ==
    /\ restorePc = "wait500"
    /\ injectContentScript
    /\ restorePc' = "wait200"
    /\ response' = NoResponse
    /\ UNCHANGED <<clock, channel, recordingState, tabStatus, reloads, trackers, carried>>
    /\ UNCHANGED <<libVars, peer, location, returnedLog>>

ErrUnknownMessage == "Unknown message type"

\* the onUpdated listener after wait(200): chrome.tabs.sendMessage(tabId,
\* { type: 'RESTORE_RECORDING', data }).  The content script's listener has
\* no case for this type: its default branch answers, the recorder is not
\* touched, and the listener ends.
RestoreSend ==
    /\ restorePc = "wait200"
    /\ restorePc' = "idle"
    /\ response' = CommandResponse("restoreRecording", FALSE, ErrUnknownMessage, NoData)
    /\ UNCHANGED <<injected, recorder, clock, channel, recordingState, tabStatus, reloads,
                   trackers, carried>>
    /\ UNCHANGED <<replayVars, libVars, peer, location, returnedLog>>

NoCarried == [active |-> FALSE, log |-> <<>>, mirrored |-> FALSE, mirror |-> <<>>]

CaptureInit ==
    /\ injected = FALSE
    /\ recorder = RecorderInit
    /\ clock = 1
    /\ channel = <<>>
    /\ recordingState = MirrorInit
    /\ tabStatus = "complete"
    /\ restorePc = "idle"
    /\ reloads = 0
    /\ trackers = <<>>
    /\ carried = NoCarried
    /\ peer = RecorderInit
    /\ returnedLog = NoReturnedLog

(***************************************************************************)
(* SelectorEngine (lib/selector-engine.js): resolution                     *)
(***************************************************************************)
\* the levels of findInDocument, in the order the code tries them
Strategies ==
    <<"id", "name", "testId", "linkText", "className", "css", "xpath",
      "partialLinkText", "textContent">>

\* an element of the page: the levels whose query it satisfies, whether it
\* is displayed, and what it holds: "nothing", an open "shadowRoot", the
\* "contentDocument" of a same-origin iframe, or a "blockedFrame" (an
\* iframe whose contentDocument is null or throws)
Node(matches, visible, holds, inner) ==
    [matches |-> matches, visible |-> visible, holds |-> holds, inner |-> inner]

\* a selector set: the levels whose field is not null, its tagName, and the
\* levels whose field the browser rejects as a selector or an XPath
SelectorSet(given, tagName) == [given |-> given, tagName |-> tagName, invalid |-> {}]

\* a reference to the element at position index of the document, shadow
\* root or frame document that the element at path scope holds (<<>> is
\* the main document); null is index 0
Ref(scope, index) == [scope |-> scope, index |-> index]
NullElement == Ref(<<>>, 0)

\* const element, before findElement has returned
Unresolved == Ref(<<>>, -1)

NoPage == <<>>
NoSelectorSet == SelectorSet({}, "-")

\* the guard of each level: if (selectors.id) ..., if (selectors.linkText &&
\* selectors.tagName === 'a') ..., if (selectors.textContent && selectors.tagName)
applies(sel, strategy) ==
    /\ strategy \in sel.given
    /\ strategy \in {"linkText", "partialLinkText"} => sel.tagName = "a"

\* doc.querySelector(...), links.find(...), elements.find(...),
\* doc.evaluate(... FIRST_ORDERED_NODE_TYPE ...): the first element in
\* document order that satisfies the level's query, 0 for none
querySelector(doc, strategy) ==
    IF \E k \in 1..Len(doc) : strategy \in doc[k].matches
    THEN CHOOSE k \in 1..Len(doc) :
            /\ strategy \in doc[k].matches
            /\ \A j \in 1..(k - 1) : strategy \notin doc[j].matches
    ELSE 0

\* an exception leaves the function
Thrown == -2

Guarded_none == {}

\* the levels whose query stands in try { ... } catch (e) { }
Guarded == {"id", "name", "testId", "className", "css", "xpath"}

\* the query of one level with the field of the selector set: a SyntaxError
\* for a field the browser rejects
query(doc, sel, strategy) ==
    IF strategy \in sel.invalid THEN Thrown ELSE querySelector(doc, strategy)

RECURSIVE findFromLevel(_, _, _)
findFromLevel(doc, sel, level) ==
    IF level > Len(Strategies) THEN 0
    ELSE LET el == IF applies(sel, Strategies[level])
                   THEN query(doc, sel, Strategies[level]) ELSE 0
         IN CASE el = Thrown -> IF Strategies[level] \in Guarded
                                THEN findFromLevel(doc, sel, level + 1)
                                ELSE Thrown
              [] el = 0 -> findFromLevel(doc, sel, level + 1)
              [] OTHER -> el

\* SelectorEngine.findInDocument(doc, selectors): position of the element
\* returned, 0 for null
findInDocument(doc, sel) == findFromLevel(doc, sel, 1)

\* SelectorEngine.getAllShadowHosts(root): the hosts below root in document
\* order, each followed by the hosts inside its own shadow root
RECURSIVE hostsFrom(_, _, _)
hostsFrom(nodes, path, k) ==
    IF k > Len(nodes) THEN <<>>
    ELSE (IF nodes[k].holds = "shadowRoot"
          THEN <<[path |-> Append(path, k), shadowRoot |-> nodes[k].inner]>>
               \o hostsFrom(nodes[k].inner, Append(path, k), 1)
          ELSE <<>>)
         \o hostsFrom(nodes, path, k + 1)

getAllShadowHosts(root, path) == hostsFrom(root, path, 1)

RECURSIVE findInHosts(_, _, _)
findInHosts(hosts, sel, k) ==
    IF k > Len(hosts) THEN NullElement
    ELSE LET el == findInDocument(hosts[k].shadowRoot, sel)
         IN IF el # 0 THEN Ref(hosts[k].path, el) ELSE findInHosts(hosts, sel, k + 1)

\* SelectorEngine.findInShadowRoots(selectors)
findInShadowRoots(doc, sel) == findInHosts(getAllShadowHosts(doc, <<>>), sel, 1)

\* SelectorEngine.findInIframes(selectors): the iframes of the main
\* document in order; one without a contentDocument is skipped
RECURSIVE findInFrames(_, _, _)
findInFrames(doc, sel, k) ==
    IF k > Len(doc) THEN NullElement
    ELSE LET el == IF doc[k].holds = "contentDocument"
                   THEN findInDocument(doc[k].inner, sel) ELSE 0
         IN IF el # 0 THEN Ref(<<k>>, el) ELSE findInFrames(doc, sel, k + 1)

findInIframes(doc, sel) == findInFrames(doc, sel, 1)

findElement_framesFirst(doc, sel) ==
    LET inMain == findInDocument(doc, sel)
        inFrames == findInIframes(doc, sel)
    IN IF inMain # 0 THEN Ref(<<>>, inMain)
       ELSE IF inFrames # NullElement THEN inFrames
       ELSE findInShadowRoots(doc, sel)

\* SelectorEngine.findElement(selectors)
findElement(doc, sel) ==
    LET inMain == findInDocument(doc, sel)
        inShadow == findInShadowRoots(doc, sel)
    IN IF inMain # 0 THEN Ref(<<>>, inMain)
       ELSE IF inShadow # NullElement THEN inShadow
       ELSE findInIframes(doc, sel)

\* a caller resolves the selector set against the page
FindElement ==
    /\ element' = findElement(page, selectorSet)
    /\ response' = NoResponse
    /\ UNCHANGED <<page, selectorSet, scaling, finding, settling>>
    /\ UNCHANGED <<replayVars, captureVars, location>>

\* no page, selector set or element is under consideration
LibIdle ==
    /\ page = NoPage
    /\ selectorSet = NoSelectorSet
    /\ element = NullElement
    /\ scaling = NoScaling
    /\ finding = NoFinding
    /\ settling = NoSettling

InitReplay ==
    /\ player = PlayerInit
    /\ calls = <<>>
    /\ location = "/start"
    /\ response = NoResponse
    /\ CaptureInit
    /\ LibIdle

NextReplay ==
    \/ \E log \in Logs, speed \in Speeds : Play(log, speed)
    \/ \E c \in CallIds : DelayElapsed(c)
    \/ \E c \in CallIds, d \in DocStates : Dispatch(c, d)
    \/ \E c \in CallIds, d \in DocStates : RetryElapsed(c, d)
    \/ \E c \in CallIds : ActionDone(c)
    \/ Pause
    \/ StopPlayback
    \/ \E speed \in Speeds : SetSpeed(speed)

SpecReplay == InitReplay /\ [][NextReplay]_vars

InitCapture ==
    /\ player = PlayerInit
    /\ calls = <<>>
    /\ location = "/start"
    /\ response = NoResponse
    /\ CaptureInit
    /\ LibIdle

NextCapture ==
    \/ Inject
    \/ StartRecording
    \/ StopRecording
    \/ \E target \in ClickTargets, t \in 1..MaxTime : CaptureClick(target, t)
    \/ SyncTick
    \/ Deliver
    \/ \E url \in Urls : Reload(url)
    \/ TabComplete
    \/ RestoreInject
    \/ RestoreSend

SpecCapture == InitCapture /\ [][NextCapture]_vars

\* The recorder in one page, with every kind of signal it listens to.
InitLog == InitCapture

NextLog ==
    \/ Inject
    \/ StartRecording
    \/ StopRecording
    \/ \E target \in ClickTargets, t \in 1..MaxTime : CaptureClick(target, t)
    \/ \E target \in InputTargets, value \in Values, t \in 1..MaxTime :
          CaptureInput(target, value, t)
    \/ \E target \in KeyTargets, t \in 1..MaxTime : CaptureKey(target, t)
    \/ \E url \in Urls : UrlChange(url)
    \/ \E k \in 1..MaxTrackers, t \in 1..MaxTime : DetectorFires(k, t)
    \/ Deliver

SpecLog == InitLog /\ [][NextLog]_vars

(***************************************************************************)
(* Replay: the claims                                                      *)
(***************************************************************************)
Returned == response.kind = "returned"

\* the indices 0..n-1, in order
Indices(n) == [k \in 1..n |-> k - 1]

\* C1: at most one play() loop is in flight at any time, also when play() is
\* called again after stop() or pause() while an earlier play() is still
\* suspended at a wait.
C1_OneLoopInFlight == Len(calls) <= 1

\* C1 (evidence): a second play() was accepted while the first, stopped, had
\* not returned, and both loops have executed actions.
C1_TwoLoops ==
    /\ Len(calls) = 2
    /\ calls[1].abortReq /\ calls[1].ran # <<>>
    /\ calls[2].ran # <<>>

C5_NotFoundReportsStep ==
    (Returned /\ response.result.error = ErrNotFound)
    => /\ ~response.result.success
       /\ response.result.stepsExecuted = response.call.i
       /\ \A n \in 1..Len(response.call.ran) : response.call.ran[n] <= response.call.i

\* C5 (evidence): without stop() the reported step is the failing index.
C5_NotFoundNoStop ==
    (Returned /\ response.result.error = ErrNotFound /\ ~response.call.abortReq
        /\ ~response.call.overlap)
    => response.result = Failure(ErrNotFound, response.call.i)

\* C6: play() on an empty log fails with 'No actions to play', play() while
\* Playing fails with 'Already playing'; a refused play() changes nothing
\* (isPlaying, currentStep, actions, playbackSpeed, the loops in flight), and
\* a play() that is not refused was given a non-empty log while not Playing.
C6_RefusedPlay ==
    [][ /\ response'.kind = "refused" =>
             /\ ~response'.result.success
             /\ response'.result.error =
                    (IF player.isPlaying THEN ErrAlreadyPlaying ELSE ErrEmptyLog)
             /\ UNCHANGED <<player, calls, location>>
        /\ Len(calls') > Len(calls) =>
             /\ ~player.isPlaying
             /\ calls'[Len(calls')].log # <<>> ]_vars

C6_Witness ==
    /\ response.kind = "refused"
    /\ response.result.error = ErrAlreadyPlaying
    /\ player.isPlaying /\ player.currentStep = 1 /\ player.playbackSpeed = 2
    /\ Len(calls) = 1

\* C9: when an abort is requested while play() is suspended in the wait
\* before action i, action i and the actions after it are not executed.
C9_AbortAtWait ==
    /\ \A c \in CallIds :
          calls[c].delayAbort >= 0 =>
             \A n \in 1..Len(calls[c].ran) : calls[c].ran[n] < calls[c].delayAbort
    /\ (Returned /\ response.call.delayAbort >= 0) =>
             \A n \in 1..Len(response.call.ran) :
                 response.call.ran[n] < response.call.delayAbort

\* C10: a play() during which pause() or stop() was called returns the
\* failure 'Playback aborted'.
C10_UnwindsToAborted ==
    (Returned /\ response.call.abortReq)
    => response.result.success = FALSE /\ response.result.error = ErrAborted

\* the call at position c begins an inter-action wait in this step
BeginsWait(c) ==
    /\ Len(calls') >= Len(calls)
    /\ calls'[c].pc = "delay"
    /\ (c \in DOMAIN calls => calls[c].pc # "delay")

\* C11: after setSpeed(s) during playback every inter-action wait that starts
\* is scale(delay, s), s being the multiplier selected last (playbackSpeed),
\* and a wait in progress keeps its duration.
C11_SetSpeedTakesEffect ==
    [][ /\ \A c \in DOMAIN calls' :
              BeginsWait(c) =>
                 calls'[c].wait =
                    scaleDelay(Whole(calls'[c].log[calls'[c].i + 1].timing.delay),
                               Whole(player'.playbackSpeed))
        /\ \A c \in DOMAIN calls :
              (/\ Len(calls') = Len(calls)
               /\ calls[c].pc = "delay" /\ calls'[c].pc = "delay")
              => calls'[c].wait = calls[c].wait ]_vars

\* the wait made before each executed action of index > 0 is the scaled
\* delay of the action, and at least 10 ms
WaitsScaled(call) ==
    \A n \in 1..Len(call.ran) :
        call.ran[n] > 0 =>
           /\ call.waits[n] = scaleDelay(Whole(call.log[call.ran[n] + 1].timing.delay),
                                         Whole(call.speed))
           /\ ~Less(call.waits[n], Whole(10))

\* C12: before executing every action of index i > 0 play() waits
\* scale(delay_i, speed), at least 10 ms, also when delay_i = 0.
C12_WaitsBeforeEachAction ==
    /\ \A c \in CallIds : WaitsScaled(calls[c])
    /\ Returned => WaitsScaled(response.call)

(***************************************************************************)
(* Capture: the claims                                                     *)
(***************************************************************************)
\* every action of log a is in log b
AllIn(a, b) == Range(a) \subseteq Range(b)

\* nothing is left to run without a new command or event: the page has
\* loaded, the onUpdated listener has returned, no message is in flight
Settled == tabStatus = "complete" /\ restorePc = "idle" /\ channel = <<>>

\* C2: when a page that is Recording, and recorded as such in the mirror, is
\* torn down by a full reload, the mirror still has isRecording = true and
\* still holds every action it had been synced at the moment the next page
\* finishes loading.
C2_MirrorSurvivesTeardown ==
    [][ (/\ tabStatus = "loading" /\ tabStatus' = "complete"
         /\ carried.active /\ carried.mirrored)
        => /\ recordingState.isRecording
           /\ AllIn(carried.mirror, recordingState.actions) ]_vars

\* C3: after a reload while Recording, once the new page has loaded and the
\* restoration has run its course the re-injected recorder is Recording with
\* the first page's actions in its log, and the stop() that follows returns a
\* log that holds every action captured on the first page.
C3_RecordingSurvivesReload ==
    [][ /\ (carried'.active /\ carried'.mirrored /\ Settled')
            => /\ injected' /\ recorder'.isRecording
               /\ AllIn(carried'.log, recorder'.actions)
        /\ (/\ carried.active /\ carried.mirrored /\ Settled
            /\ response'.kind = "stopRecording")
            => /\ ~response'.data.null
               /\ AllIn(carried.log, response'.data.actions) ]_vars

\* C7: a start command received while Recording is answered with a failure
\* that carries an error, and leaves the log, the origin URL and the time of
\* the last action as they were.
C7_StartWhileRecordingFails ==
    [][ (response'.kind = "startRecording" /\ recorder.isRecording)
        => /\ ~response'.success
           /\ response'.error # NoError
           /\ recorder'.actions = recorder.actions
           /\ recorder'.startUrl = recorder.startUrl
           /\ recorder'.lastActionTime = recorder.lastActionTime ]_vars

\* C8: a stop command received while not Recording is answered with a
\* failure that carries an error and no log, sends nothing to the mirror and
\* leaves the recorder as it was.
C8_StopWhileIdleFails ==
    [][ (response'.kind = "stopRecording" /\ ~recorder.isRecording)
        => /\ ~response'.success
           /\ response'.error # NoError
           /\ response'.data.null
           /\ channel' = channel
           /\ recorder' = recorder ]_vars

\* C21: the answer to a stop command carries the completed log: the
\* recorder's own log when it is Recording, and the mirror's copy when the
\* recorder's log is empty while the mirror holds actions.
C21_StopReturnsLogOrMirrorCopy ==
    [][ response'.kind = "stopRecording"
        => /\ recorder.isRecording
                => /\ ~response'.data.null
                   /\ response'.data.actions = recorder.actions
           /\ (recorder.actions = <<>> /\ recordingState.actions # <<>>)
                => /\ ~response'.data.null
                   /\ response'.data.actions = recordingState.actions ]_vars

(***************************************************************************)
(* handleSyncActions on its own: a SYNC_ACTIONS message handled twice      *)
(***************************************************************************)
\* actions as the recorder builds them; the first and the third carry the
\* same timestamp
SyncedActions ==
    {Action("click", GoButton, NoValue, "/start", createTimingData(Now(2), Now(1))),
     Action("input", EmailField, "a", "/start", createTimingData(Now(3), Now(2))),
     Action("keypress", SearchField, NoValue, "/next", createTimingData(Now(2), Now(1))),
     Action("navigation", NoSelectors, NoValue, "/next", createTimingData(Now(3), Now(2)))}

SyncedLogs == SeqsUpTo(SyncedActions, MaxSyncLen)

\* the mirror before RECORDING_STARTED, or recording with some actions stored
SyncedMirrors ==
    {MirrorInit} \cup
    {[MirrorInit EXCEPT !.isRecording = TRUE, !.tabId = Tab, !.startUrl = "/start",
                        !.startTime = Now(1), !.actions = log] : log \in SyncedLogs}

InitSync ==
    /\ player = PlayerInit
    /\ calls = <<>>
    /\ location = "/start"
    /\ response = NoResponse
    /\ injected = FALSE
    /\ recorder = RecorderInit
    /\ clock = 1
    /\ recordingState \in SyncedMirrors
    /\ \E log \in SyncedLogs :
          channel = <<Msg("SYNC_ACTIONS", log, NoUrl, NullTime),
                      Msg("SYNC_ACTIONS", log, NoUrl, NullTime)>>
    /\ tabStatus = "complete"
    /\ restorePc = "idle"
    /\ reloads = 0
    /\ trackers = <<>>
    /\ carried = NoCarried
    /\ peer = RecorderInit
    /\ returnedLog = NoReturnedLog
    /\ LibIdle

NextSync == Deliver

SpecSync == InitSync /\ [][NextSync]_vars

\* C18: handling the same SYNC_ACTIONS message a second time leaves the
\* mirror's action list, and the rest of the mirror, as the first handling
\* left it.  (Every behaviour of SpecSync handles one message twice.)
C18_SyncIdempotent ==
    [][ (Len(channel) = 1 /\ channel' = <<>>) => recordingState' = recordingState ]_vars

C18_Witness ==
    /\ channel = <<>>
    /\ recordingState.isRecording
    /\ Len(recordingState.actions) > MaxSyncLen

(***************************************************************************)
(* Recorder.restore(data), called on the recorder of a loaded page         *)
(***************************************************************************)
\* the data of the background's RESTORE_RECORDING message
RestoreData(m) == [actions |-> m.actions, startUrl |-> m.startUrl, startTime |-> m.startTime]

restoredActions_kept(r, data) == IF r.isRecording THEN r.actions ELSE data.actions

\* this.actions = data.actions || [] : the list of the message, whatever the
\* recorder held before
restoredActions(r, data) == data.actions

\* Recorder.restore(data) at time now on a page whose URL is url
restore(r, data, now, url) ==
    LET actions == restoredActions(r, data)
        lastActionTime == IF Len(actions) > 0
                          THEN actions[Len(actions)].timing.timestamp
                          ELSE data.startTime
        restored == [r EXCEPT !.isRecording = TRUE, !.actions = actions,
                              !.startUrl = data.startUrl, !.startTime = data.startTime,
                              !.lastActionTime = lastActionTime, !.currentUrl = url,
                              !.syncInterval = TRUE]
    IN IF url # data.startUrl
       THEN [restored EXCEPT
               !.actions = Append(@, Action("navigation", NoSelectors, NoValue, url,
                                            createTimingData(now, lastActionTime))),
               !.lastActionTime = now]
       ELSE restored

\* restore(data) with the mirror's fields, then setupNavigationTracking()
\* and startStateSync(); return { success: true }
Restore(t) ==
    /\ injected
    /\ t >= clock
    /\ Len(trackers) < MaxTrackers
    /\ recorder' = restore(recorder, RestoreData(recordingState), Now(t), location)
    /\ returnedLog' = writtenThrough(assigned(returnedLog, recorder'), recorder')
    /\ trackers' = setupNavigationTracking(trackers, location)
    /\ clock' = t
    /\ response' = CommandResponse("restoreRecording", TRUE, NoError, NoData)
    /\ UNCHANGED <<injected, channel, recordingState, tabStatus, restorePc, reloads, carried>>
    /\ UNCHANGED <<replayVars, libVars, peer, location>>

InitRestore ==
    /\ player = PlayerInit
    /\ calls = <<>>
    /\ location \in Urls
    /\ response = NoResponse
    /\ injected = TRUE
    /\ recorder = RecorderInit
    /\ clock = 1
    /\ recordingState \in SyncedMirrors \ {MirrorInit}
    /\ channel = <<>>
    /\ tabStatus = "complete"
    /\ restorePc = "idle"
    /\ reloads = 0
    /\ trackers = <<>>
    /\ carried = NoCarried
    /\ peer = RecorderInit
    /\ returnedLog = NoReturnedLog
    /\ LibIdle

NextRestore ==
    \/ \E t \in 1..MaxTime : Restore(t)
    \/ SyncTick
    \/ Deliver

SpecRestore == InitRestore /\ [][NextRestore]_vars

\* the step is a restore() call
RestoreCalled == response' = CommandResponse("restoreRecording", TRUE, NoError, NoData)

\* the recorder's log is what one restore() from the mirror as it is now
\* produces on this page
RestoredOnce ==
    /\ recorder.isRecording
    /\ \E t \in 1..MaxTime :
          recorder.actions =
              restore(RecorderInit, RestoreData(recordingState), Now(t), location).actions

\* C19: a second restore() with the same mirror state leaves the log as the
\* first left it: the same length, the mirror's actions unchanged, a bridging
\* navigation still single and to the same URL, its timing that of the later
\* call (the whole log equal when the clock reads the same).
C19_RestoreIdempotent ==
    [][ (RestoredOnce /\ RestoreCalled) =>
          /\ Len(recorder'.actions) = Len(recorder.actions)
          /\ \A k \in 1..Len(recorder.actions) :
                IF k <= Len(recordingState.actions)
                THEN recorder'.actions[k] = recorder.actions[k]
                ELSE [recorder'.actions[k] EXCEPT !.timing = recorder.actions[k].timing]
                       = recorder.actions[k]
          /\ (clock' = clock => recorder'.actions = recorder.actions) ]_vars

C19_Witness ==
    /\ Len(trackers) >= 2
    /\ recordingState.actions = <<>>
    /\ Len(recorder.actions) = 1
    /\ recorder.actions[1].type = "navigation"
    /\ recorder.actions[1].url = location

\* C27: the delay stored in every action of the log is never negative, and
\* the delay createTimingData stores in the action a restore() appends is
\* max(0, t1 - t0), t0 being the time of the last action before it (or the
\* start time) and t1 its own timestamp, also when t1 < t0.
C27_DelayNeverNegative ==
    [][ RestoreCalled =>
          LET stored == recordingState.actions
              log == recorder'.actions
              t0 == IF Len(stored) > 0 THEN stored[Len(stored)].timing.timestamp
                    ELSE recordingState.startTime
          IN \A k \in 1..Len(log) :
                /\ log[k].timing.delay >= 0
                /\ k > Len(stored) =>
                      LET t1 == log[k].timing.timestamp
                      IN  log[k].timing.delay = IF t1 - t0 > 0 THEN t1 - t0 ELSE 0 ]_vars

\* the appended action's timestamp lies before that of the action it follows
C27_Witness ==
    \E k \in 2..Len(recorder.actions) :
        /\ k > Len(recordingState.actions)
        /\ recorder.actions[k].timing.timestamp < recorder.actions[k - 1].timing.timestamp
        /\ recorder.actions[k].timing.delay = 0

\* the URL the mirrored session last knew: that of its last action, or the
\* start URL when it has none
LastKnownUrl(m) ==
    IF Len(m.actions) > 0 THEN m.actions[Len(m.actions)].url ELSE m.startUrl

\* C20: restore() appends exactly one bridging navigation when the page's
\* URL differs from the last known URL of the mirrored session, and none
\* when it equals it.
C20_BridgesFromLastKnownUrl ==
    [][ RestoreCalled =>
          LET stored == recordingState.actions
              log == recorder'.actions
          IN IF location # LastKnownUrl(recordingState)
             THEN /\ Len(log) = Len(stored) + 1
                  /\ SubSeq(log, 1, Len(stored)) = stored
                  /\ log[Len(log)].type = "navigation"
                  /\ log[Len(log)].url = location
             ELSE log = stored ]_vars

(***************************************************************************)
(* The recorder's log: the claims                                          *)
(***************************************************************************)
LastAction(r) == r.actions[Len(r.actions)]

\* the step handles an input event while the recorder is Recording
InputCaptured == response'.kind = "input" /\ recorder.isRecording

\* the last action of the log is a text entry on the element of the event
FollowsEntryOnSame ==
    /\ Len(recorder.actions) > 0
    /\ LastAction(recorder).type = "input"
    /\ LastAction(recorder).selectors = response'.target

\* C13: two text entries on the same element with no action between them
\* leave one action, holding the later value, when they are captured less
\* than 1000 ms apart, and two actions when 1000 ms or more apart.
C13_InputMergeWindow ==
    [][ (InputCaptured /\ FollowsEntryOnSame)
        => IF response'.now - LastAction(recorder).timing.timestamp < 1000
           THEN /\ Len(recorder'.actions) = Len(recorder.actions)
                /\ LastAction(recorder').value = response'.value
                /\ LastAction(recorder').selectors = response'.target
           ELSE /\ Len(recorder'.actions) = Len(recorder.actions) + 1
                /\ recorder'.actions[Len(recorder.actions)] = LastAction(recorder)
                /\ LastAction(recorder').type = "input"
                /\ LastAction(recorder').value = response'.value ]_vars

C13_Witness ==
    /\ response.kind = "input" /\ response.value = "ab"
    /\ Len(recorder.actions) = 1
    /\ recorder.actions[1].type = "input"
    /\ recorder.actions[1].value = "ab"
    /\ recorder.actions[1].timing.timestamp = response.now
    /\ recorder.lastActionTime < response.now

\* C14: a text entry is merged only into a text entry on the same element;
\* otherwise it is appended as a new action.
C14_MergeOnlySameElement ==
    [][ (InputCaptured /\ ~FollowsEntryOnSame)
        => /\ Len(recorder'.actions) = Len(recorder.actions) + 1
           /\ LastAction(recorder').selectors = response'.target ]_vars

\* C15: the first action of the log has delay 0.
C15_FirstDelayZero ==
    Len(recorder.actions) > 0 => recorder.actions[1].timing.delay = 0

\* C16: the delay of every action after the first is max(0, its timestamp
\* minus the timestamp of the action before it), with the stored timestamps.
C16_DelayFromStoredTimestamps ==
    \A i \in 2..Len(recorder.actions) :
        recorder.actions[i].timing.delay =
            calculateDelay(recorder.actions[i - 1].timing.timestamp,
                           recorder.actions[i].timing.timestamp)

\* the step appends a Navigation action to the log of a recording in progress
NavigationAppended ==
    /\ recorder.isRecording
    /\ Len(recorder'.actions) = Len(recorder.actions) + 1
    /\ LastAction(recorder').type = "navigation"

\* the step runs a url check that finds the closure's lastUrl out of date
ChangeDetected ==
    /\ recorder.isRecording
    /\ Len(trackers') = Len(trackers)
    /\ trackers' # trackers

\* C17: a Navigation action is appended only when the URL differs from the
\* last recorded URL, it records the URL reached, and it makes that URL the
\* last recorded one, so that further detectors firing for the same change
\* append nothing; a check that finds a change from the last recorded URL
\* appends the action; and while Recording some closure still tracks the
\* last recorded URL, also after stop() and a new start().
C17_OneNavigationPerChange ==
    [][ /\ NavigationAppended
           => /\ location # recorder.currentUrl
              /\ LastAction(recorder').url = location
              /\ recorder'.currentUrl = location
              /\ SubSeq(recorder'.actions, 1, Len(recorder.actions)) = recorder.actions
        /\ ChangeDetected
           => IF location = recorder.currentUrl
              THEN recorder'.actions = recorder.actions
              ELSE NavigationAppended
        /\ recorder'.isRecording
           => \E k \in DOMAIN trackers' : trackers'[k] = recorder'.currentUrl ]_vars

C17_Witness ==
    /\ recorder.isRecording
    /\ Len(trackers) = 2
    /\ trackers[1] = location /\ trackers[2] = location
    /\ location # recorder.startUrl
    /\ Len(recorder.actions) = 1
    /\ recorder.actions[1].type = "navigation"
    /\ recorder.actions[1].url = location

(***************************************************************************)
(* findInDocument on one document: the order of the levels, and what a     *)
(* level must match to win                                                 *)
(***************************************************************************)
MatchSets == {m \in SUBSET Range(Strategies) : Cardinality(m) <= MaxMatched}

PlainNodes == {Node(m, v, "nothing", <<>>) : m \in MatchSets, v \in BOOLEAN}

Documents == SeqsUpTo(PlainNodes, MaxNodes)

\* selector sets with every field, or every field but one, on an anchor or
\* on a button
SelectorSets ==
    {SelectorSet(g, t) :
        g \in {Range(Strategies)} \cup {Range(Strategies) \ {s} : s \in Range(Strategies)},
        t \in {"a", "button"}}

InitResolve ==
    /\ player = PlayerInit
    /\ calls = <<>>
    /\ location = "/start"
    /\ response = NoResponse
    /\ CaptureInit
    /\ page \in Documents
    /\ selectorSet \in SelectorSets
    /\ element = Unresolved
    /\ scaling = NoScaling
    /\ finding = NoFinding
    /\ settling = NoSettling

NextResolve == FindElement

SpecResolve == InitResolve /\ [][NextResolve]_vars

\* the rank order of the strategies: identifier, formalName, exactLinkText,
\* testMarker, stableClassPath, attributePath, structuralPath,
\* partialLinkText, tagAndTextPrefix
RankOrder ==
    <<"id", "name", "linkText", "testId", "className", "css", "xpath",
      "partialLinkText", "textContent">>

Rank(strategy) == CHOOSE k \in 1..Len(RankOrder) : RankOrder[k] = strategy

\* C22: the element returned from a document is never the match of a
\* strategy when a strategy of the selector set that ranks earlier matches
\* a distinct element of that document: every strategy that matches another
\* element ranks after one that matches the element returned.
C22_ResolvesInRankOrder ==
    element.index > 0 =>
        \A s \in Range(Strategies) :
            (applies(selectorSet, s) /\ querySelector(page, s) \notin {0, element.index})
            => \E w \in Range(Strategies) :
                  /\ applies(selectorSet, w)
                  /\ querySelector(page, w) = element.index
                  /\ Rank(w) < Rank(s)

\* the level of findInDocument that produced the element returned
WinningLevel ==
    CHOOSE n \in 1..Len(Strategies) :
        /\ applies(selectorSet, Strategies[n])
        /\ querySelector(page, Strategies[n]) # 0
        /\ \A j \in 1..(n - 1) :
              ~(applies(selectorSet, Strategies[j]) /\ querySelector(page, Strategies[j]) # 0)

\* C23: the strategy that wins matches exactly one element of the document,
\* and that element is visible.
C23_WinnerHasOneVisibleCandidate ==
    element.index > 0 =>
        /\ Cardinality({k \in 1..Len(page) : Strategies[WinningLevel] \in page[k].matches}) = 1
        /\ page[element.index].visible

(***************************************************************************)
(* findElement on a page with shadow roots and iframes                     *)
(***************************************************************************)
\* elements that hold nothing: one the selector set's css query matches,
\* one it does not
Leaves == {Node(m, TRUE, "nothing", <<>>) : m \in {{}, {"css"}}}

LeafScopes == SeqsUpTo(Leaves, MaxInner)

\* the content of a shadow root: plain elements and hosts of a nested
\* shadow root
NestedScopes ==
    SeqsUpTo(Leaves \cup {Node({}, TRUE, "shadowRoot", d) : d \in LeafScopes}, MaxInner)

\* the elements of the main document: plain, shadow hosts, same-origin
\* iframes, iframes whose document cannot be reached
TopNodes ==
    Leaves
    \cup {Node({}, TRUE, "shadowRoot", d) : d \in NestedScopes}
    \cup {Node({}, TRUE, "contentDocument", d) : d \in LeafScopes}
    \cup {Node({}, TRUE, "blockedFrame", <<>>)}

Pages == SeqsUpTo(TopNodes, MaxNodes)

InitScopes ==
    /\ player = PlayerInit
    /\ calls = <<>>
    /\ location = "/start"
    /\ response = NoResponse
    /\ CaptureInit
    /\ page \in Pages
    /\ selectorSet \in {SelectorSet({"css"}, "button"), SelectorSet({"css", "xpath"}, "a"),
                         SelectorSet({"xpath"}, "button")}
    /\ element = Unresolved
    /\ scaling = NoScaling
    /\ finding = NoFinding
    /\ settling = NoSettling

NextScopes == FindElement

SpecScopes == InitScopes /\ [][NextScopes]_vars

\* some strategy of the selector set matches an element of doc
MatchesIn(doc) ==
    \E s \in Range(Strategies) : applies(selectorSet, s) /\ querySelector(doc, s) # 0

\* some shadow root below nodes, at any depth, holds a match
RECURSIVE ShadowMatchBelow(_)
ShadowMatchBelow(nodes) ==
    \E k \in 1..Len(nodes) :
        /\ nodes[k].holds = "shadowRoot"
        /\ MatchesIn(nodes[k].inner) \/ ShadowMatchBelow(nodes[k].inner)

\* some iframe of the main document whose document can be reached holds a match
FrameMatch ==
    \E k \in 1..Len(page) : page[k].holds = "contentDocument" /\ MatchesIn(page[k].inner)

\* what holds the scope the returned element was found in
FoundIn ==
    IF element.index <= 0 THEN "nowhere"
    ELSE IF element.scope = <<>> THEN "document"
    ELSE page[element.scope[1]].holds

Digits == {"1", "7"}
Alnum == {"a", "b", "c", "s", "x", "C", "Z"} \cup Digits

startsWith(str, prefix) ==
    Len(str) >= Len(prefix) /\ SubSeq(str, 1, Len(prefix)) = prefix

RECURSIVE join(_, _)
join(strs, sep) ==
    IF strs = <<>> THEN <<>>
    ELSE IF Len(strs) = 1 THEN strs[1]
    ELSE strs[1] \o sep \o join(Tail(strs), sep)

\* String.prototype.trim()
RECURSIVE trim(_)
trim(str) ==
    IF str # <<>> /\ str[1] = " " THEN trim(Tail(str))
    ELSE IF str # <<>> /\ str[Len(str)] = " " THEN trim(SubSeq(str, 1, Len(str) - 1))
    ELSE str

\* str.split(/\s+/) from position k on, current being the piece under way
RECURSIVE splitFrom(_, _, _)
splitFrom(str, k, current) ==
    IF k > Len(str) THEN <<current>>
    ELSE IF str[k] = " "
         THEN IF k > 1 /\ str[k - 1] = " "
              THEN splitFrom(str, k + 1, current)
              ELSE <<current>> \o splitFrom(str, k + 1, <<>>)
         ELSE splitFrom(str, k + 1, Append(current, str[k]))

split(str) == splitFrom(str, 1, <<>>)

\* CSS.escape(value): a digit in first place, or in second place after a
\* leading "-", becomes its code point escape; a lone "-" and every
\* character other than letters, digits, "-" and "_" get a backslash
escapeChar(value, k) ==
    LET c == value[k] IN
    IF c \in Digits /\ (k = 1 \/ (k = 2 /\ value[1] = "-"))
    THEN <<"\\", "3", c, " ">>
    ELSE IF c = "-" /\ Len(value) = 1 THEN <<"\\", c>>
    ELSE IF c \in Alnum \cup {"-", "_"} THEN <<c>>
    ELSE <<"\\", c>>

RECURSIVE escapeFrom(_, _)
escapeFrom(value, k) ==
    IF k > Len(value) THEN <<>> ELSE escapeChar(value, k) \o escapeFrom(value, k + 1)

CSSescape(value) == escapeFrom(value, 1)

isDynamicClass_prefixOnly(className) == startsWith(className, <<"c", "s", "s", "-">>)

\* SelectorEngine.isDynamicClass(className):
\* /^[a-z0-9]{8,}$/i, /_[a-z0-9]{5,}$/i, /^css-/
isDynamicClass(className) ==
    \/ Len(className) >= 8 /\ \A k \in 1..Len(className) : className[k] \in Alnum
    \/ \E p \in 1..Len(className) :
          /\ className[p] = "_"
          /\ Len(className) - p >= 5
          /\ \A k \in (p + 1)..Len(className) : className[k] \in Alnum
    \/ startsWith(className, <<"c", "s", "s", "-">>)

\* element.getAttribute(name): <<>> for null
getAttribute(el, name) ==
    IF \E k \in 1..Len(el.attributes) : el.attributes[k].name = name
    THEN el.attributes[CHOOSE k \in 1..Len(el.attributes) :
                          /\ el.attributes[k].name = name
                          /\ \A j \in 1..(k - 1) : el.attributes[j].name # name].value
    ELSE <<>>

\* arr.slice(0, n)
slice(arr, n) == SubSeq(arr, 1, IF Len(arr) < n THEN Len(arr) ELSE n)

Map(f(_), seq) == [k \in 1..Len(seq) |-> f(seq[k])]

\* SelectorEngine.generateSelectors(element)
generateSelectors(el) ==
    LET tag == el.tagName
        isAnchor == tag = <<"a">>
        testId == IF getAttribute(el, <<"d", "a", "t", "a", "-", "t", "e", "s", "t", "i", "d">>) # <<>>
                  THEN getAttribute(el, <<"d", "a", "t", "a", "-", "t", "e", "s", "t", "i", "d">>)
                  ELSE IF getAttribute(el, <<"d", "a", "t", "a", "-", "t", "e", "s", "t", "-", "i", "d">>) # <<>>
                       THEN getAttribute(el, <<"d", "a", "t", "a", "-", "t", "e", "s", "t", "-", "i", "d">>)
                       ELSE getAttribute(el, <<"d", "a", "t", "a", "-", "t", "e", "s", "t">>)
        notDynamic(c) == ~isDynamicClass(c)
        classes == slice(SelectSeq(split(trim(el.className)), notDynamic), 3)
        className == IF el.className # <<>> /\ Len(classes) > 0
                     THEN tag \o <<".">> \o join(Map(CSSescape, classes), <<".">>)
                     ELSE <<>>
        wanted(attr) ==
            /\ \/ startsWith(attr.name, <<"d", "a", "t", "a", "-">>)
               \/ startsWith(attr.name, <<"a", "r", "i", "a", "-">>)
               \/ attr.name = <<"r", "o", "l", "e">>
               \/ attr.name = <<"t", "y", "p", "e">>
            /\ attr.value # <<>>
        dataAttrs == slice(SelectSeq(el.attributes, wanted), 2)
        attrSelector(attr) ==
            <<"[">> \o attr.name \o <<"=", "\"">> \o CSSescape(attr.value) \o <<"\"", "]">>
    IN [id |-> IF el.id # <<>> THEN <<"#">> \o CSSescape(el.id) ELSE <<>>,
        name |-> IF el.name # <<>>
                 THEN tag \o <<"[", "n", "a", "m", "e", "=", "\"">> \o CSSescape(el.name) \o <<"\"", "]">>
                 ELSE <<>>,
        linkText |-> IF isAnchor /\ el.textContent # <<>> THEN trim(el.textContent) ELSE <<>>,
        testId |-> IF testId # <<>>
                   THEN <<"[", "d", "a", "t", "a", "-", "t", "e", "s", "t", "i", "d", "=", "\"">> \o CSSescape(testId) \o <<"\"", "]">>
                   ELSE <<>>,
        className |-> className,
        css |-> IF Len(dataAttrs) > 0
                THEN tag \o join(Map(attrSelector, dataAttrs), <<>>)
                ELSE className,
        xpath |-> el.xpath,
        partialLinkText |-> IF isAnchor /\ el.textContent # <<>>
                            THEN slice(trim(el.textContent), 20) ELSE <<>>,
        tagName |-> tag,
        textContent |-> slice(trim(el.textContent), 100)]

\* a caller (Recorder.handleClick, handleInput, handleKeyDown) builds the
\* selector set of the element an event hit
GenerateSelectors ==
    /\ selectorSet' = generateSelectors(element)
    /\ response' = NoResponse
    /\ UNCHANGED <<page, element, scaling, finding, settling>>
    /\ UNCHANGED <<replayVars, captureVars, location>>

\* class tokens: a plain one, one for each pattern of isDynamicClass, one
\* just short of the suffix pattern, one with a dot
ClassTokens ==
    {<<"b", "s">>,
     <<"a", "a", "a", "a", "a", "a", "a", "7">>,
     <<"x", "_", "a", "1", "b", "7", "c">>,
     <<"x", "_", "a", "1", "b", "7">>,
     <<"c", "s", "s", "-", "a">>,
     <<"a", ".", "c", "s", "s", "-", "b">>}

\* the className attribute: the tokens separated by pad and one blank,
\* with pad before and after
classNameOf(tokens, pad) == pad \o join(tokens, pad \o <<" ">>) \o pad

\* an anchor with an id, a name, a test id, text and a type attribute, or
\* a div with nothing but its classes
Elements ==
    {[tagName |-> <<"a">>, id |-> <<"7", "a">>, name |-> <<"b">>,
      textContent |-> <<" ", "C", " ", "a", " ">>, xpath |-> <<"/", "a", "[", "1", "]">>, className |-> classNameOf(tokens, pad),
      attributes |-> <<[name |-> <<"h", "r", "e", "f">>, value |-> <<"x">>],
                       [name |-> <<"d", "a", "t", "a", "-", "t", "e", "s", "t">>, value |-> <<"s">>],
                       [name |-> <<"t", "y", "p", "e">>, value |-> <<>>]>>] :
        tokens \in SeqsUpTo(ClassTokens, MaxClasses), pad \in {<<>>, <<" ">>}}
    \cup
    {[tagName |-> <<"d", "i", "v">>, id |-> <<>>, name |-> <<>>,
      textContent |-> <<>>, xpath |-> <<"/", "d", "i", "v", "[", "1", "]">>, className |-> classNameOf(tokens, pad),
      attributes |-> <<>>] :
        tokens \in SeqsUpTo(ClassTokens, MaxClasses), pad \in {<<>>, <<" ">>}}

InitGenerate ==
    /\ player = PlayerInit
    /\ calls = <<>>
    /\ location = "/start"
    /\ response = NoResponse
    /\ CaptureInit
    /\ page = NoPage
    /\ selectorSet = NoSelectorSet
    /\ element \in Elements
    /\ scaling = NoScaling
    /\ finding = NoFinding
    /\ settling = NoSettling

NextGenerate == GenerateSelectors

SpecGenerate == InitGenerate /\ [][NextGenerate]_vars

\* the pieces of a selector between its dots, a dot after a backslash not
\* counting
RECURSIVE partsFrom(_, _, _)
partsFrom(str, k, current) ==
    IF k > Len(str) THEN {current}
    ELSE IF str[k] = "." /\ (k = 1 \/ str[k - 1] # "\\")
         THEN {current} \cup partsFrom(str, k + 1, <<>>)
         ELSE partsFrom(str, k + 1, Append(current, str[k]))

ClassParts(selector) ==
    IF selector = <<>> THEN {} ELSE partsFrom(selector, 1, <<>>)

\* a class token that looks generated: 8 or more alphanumeric characters
\* and nothing else, an ending of "_" and 5 or more alphanumerics, or a
\* beginning of "css-"
Generated(token) ==
    \/ Len(token) >= 8 /\ Range(token) \subseteq Alnum
    \/ \E n \in 5..Len(token) :
          /\ Len(token) > n
          /\ token[Len(token) - n] = "_"
          /\ Range(SubSeq(token, Len(token) - n + 1, Len(token))) \subseteq Alnum
    \/ (Len(token) >= 4 /\ SubSeq(token, 1, 4) = <<"c", "s", "s", "-">>)

\* C25: once the selector set is built, no generated class token of the
\* element is one of the classes of its className selector (nor of its css
\* selector when that is the className selector).
C25_NoGeneratedClassInClassName ==
    selectorSet # NoSelectorSet =>
        \A token \in Range(split(trim(element.className))) :
            Generated(token) =>
                /\ CSSescape(token) \notin ClassParts(selectorSet.className)
                /\ CSSescape(token) \notin ClassParts(selectorSet.css)

\* a className selector was built from a class list that held a generated
\* token, and the css selector is that same selector
C25_Witness ==
    /\ selectorSet # NoSelectorSet
    /\ selectorSet.className # <<>>
    /\ selectorSet.css = selectorSet.className
    /\ \E token \in Range(split(trim(element.className))) : Generated(token)
    /\ \E token \in Range(split(trim(element.className))) :
          ~Generated(token) /\ CSSescape(token) \in ClassParts(selectorSet.className)

(***************************************************************************)
(* TimingEngine.scaleDelay on its own                                      *)
(***************************************************************************)
\* delays: whole and quarter milliseconds up to MaxDelay, and the round
\* figures of recorded pauses
Delays ==
    {Fraction(n, q) : n \in 0..MaxDelay, q \in {1, 4}} \cup {Whole(100), Whole(1000)}

\* the multipliers of the speed selector (0.5, 1, 2, 4) and two others
PlaybackSpeeds ==
    {Fraction(1, 2), Whole(1), Whole(2), Whole(4), Fraction(3, 2), Whole(3)}

ScaleDelay ==
    /\ scaling' = [scaling EXCEPT !.scaled = scaleDelay(scaling.delay, scaling.speed)]
    /\ response' = NoResponse
    /\ UNCHANGED <<page, selectorSet, element, finding, settling>>
    /\ UNCHANGED <<replayVars, captureVars, location>>

InitTiming ==
    /\ player = PlayerInit
    /\ calls = <<>>
    /\ location = "/start"
    /\ response = NoResponse
    /\ CaptureInit
    /\ page = NoPage
    /\ selectorSet = NoSelectorSet
    /\ element = NullElement
    /\ finding = NoFinding
    /\ settling = NoSettling
    /\ \E delay \in Delays, speed \in PlaybackSpeeds :
          scaling = ScaleCall(delay, speed, Undefined)

NextTiming == ScaleDelay

SpecTiming == InitTiming /\ [][NextTiming]_vars

\* C26: what scaleDelay(d, speed) returns times speed is d when d is at
\* least 10 * speed, and it returns 10 otherwise: max(10, d / speed); and
\* scale(5, 1) = 10, scale(1000, 2) = 500, scale(100, 4) = 25.
C26_ScaleIsMaxOfTenAndQuotient ==
    scaling.scaled # Undefined =>
        LET d == scaling.delay
            speed == scaling.speed
            r == scaling.scaled
        IN /\ r.d > 0
           /\ IF d.n * speed.d >= 10 * speed.n * d.d
              THEN r.n * speed.n * d.d = d.n * r.d * speed.d
              ELSE r.n = 10 * r.d
           /\ (d = Whole(5) /\ speed = Whole(1)) => r = Whole(10)
           /\ (d = Whole(1000) /\ speed = Whole(2)) => r = Whole(500)
           /\ (d = Whole(100) /\ speed = Whole(4)) => r = Whole(25)

\* a quotient above the floor that is not a whole number: 25 / 2
C26_Witness == scaling = ScaleCall(Whole(25), Whole(2), Fraction(25, 2))

(***************************************************************************)
(* Two tabs: a second content script with its own Recorder, and the one    *)
(* recordingState of the background                                        *)
(***************************************************************************)
\* START_RECORDING in the second tab at tick t of its page
PeerStart(t) ==
    /\ ~peer.isRecording
    /\ Len(channel) < MaxChannel
    /\ peer' = started(peer, Now(t), "/start")
    /\ channel' = channel \o FromOtherTab(<<RecordingStartedMsg(peer')>>)
    /\ response' = CommandResponse("startRecording", TRUE, NoError, NoData)
    /\ UNCHANGED <<injected, recorder, clock, recordingState, tabStatus, restorePc, reloads,
                   trackers, carried>>
    /\ UNCHANGED <<replayVars, libVars, location, returnedLog>>

\* a click in the second tab at tick t of its page
PeerClick(target, t) ==
    /\ peer.isRecording
    /\ Len(peer.actions) < MaxLogLen
    /\ Now(t) > peer.lastActionTime
    /\ peer' = handleClick(peer, target, Now(t), "/start")
    /\ response' = NoResponse
    /\ UNCHANGED <<injected, recorder, clock, channel, recordingState, tabStatus, restorePc,
                   reloads, trackers, carried>>
    /\ UNCHANGED <<replayVars, libVars, location, returnedLog>>

\* the second tab's syncInterval fires
PeerSync ==
    /\ peer.syncInterval
    /\ peer.isRecording /\ Len(peer.actions) > 0
    /\ Len(channel) < MaxChannel
    /\ channel' = channel \o FromOtherTab(<<SyncActionsMsg(peer)>>)
    /\ response' = NoResponse
    /\ UNCHANGED <<injected, recorder, clock, recordingState, tabStatus, restorePc, reloads,
                   trackers, carried, peer>>
    /\ UNCHANGED <<replayVars, libVars, location, returnedLog>>

\* STOP_RECORDING in the second tab at tick t of its page
PeerStop(t) ==
    /\ peer.isRecording
    /\ Now(t) >= peer.lastActionTime
    /\ Len(channel) + 2 <= MaxChannel
    /\ peer' = stopped(peer)
    /\ channel' = channel \o FromOtherTab(StopMessages(peer))
    /\ response' = CommandResponse("stopRecording", TRUE, NoError, recordingData(peer, Now(t)))
    /\ UNCHANGED <<injected, recorder, clock, recordingState, tabStatus, restorePc, reloads,
                   trackers, carried>>
    /\ UNCHANGED <<replayVars, libVars, location, returnedLog>>

InitTabs == InitCapture

NextTabs ==
    \/ Inject
    \/ StartRecording
    \/ StopRecording
    \/ \E target \in ClickTargets, t \in 1..MaxTime : CaptureClick(target, t)
    \/ SyncTick
    \/ Deliver
    \/ \E t \in 1..MaxTime : PeerStart(t)
    \/ \E target \in ClickTargets, t \in 1..MaxTime : PeerClick(target, t)
    \/ PeerSync
    \/ \E t \in 1..MaxTime : PeerStop(t)

SpecTabs == InitTabs /\ [][NextTabs]_vars

\* the background handles the oldest message
Delivered == channel # <<>> /\ channel' = Tail(channel)

Ignored(kind, target, value, t) ==
    /\ injected /\ ~recorder.isRecording
    /\ t = clock
    /\ response' = Signal(kind, target, value, Now(t))
    /\ UNCHANGED <<injected, recorder, clock, channel, recordingState, tabStatus,
                   restorePc, reloads, trackers, carried, returnedLog>>
    /\ UNCHANGED <<replayVars, libVars, peer, location>>

\* a click, an input event, a keydown of Enter in the page at tick t,
\* whether or not a recording runs
ClickSignal(target, t) == CaptureClick(target, t) \/ Ignored("click", target, NoValue, t)

InputSignal(target, value, t) ==
    CaptureInput(target, value, t) \/ Ignored("input", target, value, t)

KeySignal(target, t) == CaptureKey(target, t) \/ Ignored("keydown", target, NoValue, t)

\* a detector of the k-th closure fires at tick t, whether or not a
\* recording runs: stop() leaves the detectors installed
UrlSignal(k, t) ==
    \/ DetectorFires(k, t)
    \/ k \in DOMAIN trackers /\ Ignored("urlchange", NoSelectors, NoValue, t)

InitFrozen == InitCapture

\* the signals of this specification come at the clock's next tick, or at
\* the present one when they are ignored, and stop coming once a recording
\* holds MaxLogLen actions
Soon ==
    IF recorder.isRecording /\ Len(recorder.actions) >= MaxLogLen THEN {}
    ELSE {clock, clock + 1} \cap 1..MaxTime

NextFrozen ==
    \/ Inject
    \/ StartRecording
    \/ StopRecording
    \/ \E target \in ClickTargets, t \in Soon : ClickSignal(target, t)
    \/ \E t \in Soon : InputSignal(EmailField, "a", t)
    \/ \E target \in KeyTargets, t \in Soon : KeySignal(target, t)
    \/ \E url \in Urls : UrlChange(url)
    \/ \E k \in 1..MaxTrackers, t \in Soon : UrlSignal(k, t)
    \/ \E t \in {clock} : Restore(t)
    \/ Deliver

SpecFrozen == InitFrozen /\ [][NextFrozen]_vars

\* the step is a stop() that returns a list
StopReturns ==
    /\ recorder.isRecording
    /\ response' = CommandResponse("stopRecording", TRUE, NoError,
                                   recordingData(recorder, Now(clock)))

\* C29: once stop() has returned, the action list it returned stays as it
\* was returned through every later step of the page (click, input, Enter
\* and URL-change signals, start(), restore(), messages handled by the
\* background) until another stop() returns another list.
C29_ReturnedLogImmutable ==
    [][ (returnedLog.returned /\ ~StopReturns)
            => returnedLog'.returned /\ returnedLog'.actions = returnedLog.actions ]_vars

\* a list was returned, the recorder was started or restored after that and
\* has captured into its new list, and the returned one still holds what
\* was returned
C29_Witness ==
    /\ returnedLog.returned /\ ~returnedLog.shared
    /\ Len(returnedLog.actions) > 0
    /\ recorder.isRecording
    /\ Len(recorder.actions) > 0
    /\ recorder.actions # returnedLog.actions


(***************************************************************************)
(* Player.findElementWithRetry: attempts and waits                         *)
(***************************************************************************)
InitRetry ==
    /\ player = PlayerInit
    /\ calls = <<>>
    /\ location = "/start"
    /\ response = NoResponse
    /\ CaptureInit
    /\ page = NoPage
    /\ selectorSet = NoSelectorSet
    /\ element = NullElement
    /\ scaling = NoScaling
    /\ finding = FindingInit
    /\ settling = NoSettling

NextRetry ==
    \/ \E d \in Meets : TryFind(d)
    \/ WaitElapsed

SpecRetry == InitRetry /\ [][NextRetry]_vars

\* the waits made after a failed attempt, before the next one, in order
BackoffWaits ==
    LET isBackoff(w) == w.kind \in {"backoff", "caught"}
    IN  SelectSeq(finding.waits, isBackoff)

\* C30: findElementWithRetry makes at most maxRetries attempts; the wait
\* after failed attempt n lasts min(300 * n, 2000) ms on every path, the
\* catch path included, so that the waits never decrease and none exceeds
\* 2000 ms.
C30_BoundedRetriesCappedBackoff ==
    /\ finding.attempt <= maxRetries
    /\ \A k \in DOMAIN BackoffWaits :
          /\ BackoffWaits[k].ms = Min(300 * BackoffWaits[k].after, 2000)
          /\ BackoffWaits[k].ms <= 2000
          /\ k > 1 => BackoffWaits[k - 1].ms <= BackoffWaits[k].ms


\* the attempt just made met d
JustMet(d) == response = Met(d)

\* C31: an element that resolves but is not interactable is returned only by
\* the last attempt (attempt = maxRetries); on an earlier attempt it leads to
\* the same backoff wait as an element not found, and then to the next
\* attempt; null is returned only by the last attempt, when it resolved no
\* element.
C31_NonInteractableOnlyOnLastAttempt ==
    /\ (JustMet("hidden") /\ finding.attempt < maxRetries)
          => /\ finding.pc = "backoff"
             /\ finding.wait = backoff(finding.attempt)
             /\ finding.result = NoFinding.result
    /\ (JustMet("hidden") /\ finding.pc = "returned")
          => finding.attempt = maxRetries /\ finding.result = "element"
    /\ (finding.pc = "returned" /\ finding.result = "null")
          => /\ finding.attempt = maxRetries
             /\ JustMet("absent") \/ JustMet("throws")
    /\ (finding.pc = "returned" /\ finding.result = "element")
          => JustMet("ready") \/ JustMet("hidden")

\* the last attempt returned an element that is not interactable, after
\* earlier attempts that met it were retried
C31_Witness ==
    /\ finding.pc = "returned" /\ finding.result = "element"
    /\ JustMet("hidden")
    /\ finding.attempt = maxRetries
    /\ finding.lastError = ErrNotInteractable


(***************************************************************************)
(* Player.handleNavigation and waitForPageLoad                             *)
(***************************************************************************)
ReadyStates == {"loading", "interactive", "complete"}
Targets == {"same", "fragment", "document"}
NavigationLogs == SeqsUpTo(Targets, MaxLogLen) \ {<<>>}

InitSettle ==
    /\ player = PlayerInit
    /\ calls = <<>>
    /\ location = "/start"
    /\ response = NoResponse
    /\ CaptureInit
    /\ page = NoPage
    /\ selectorSet = NoSelectorSet
    /\ element = NullElement
    /\ scaling = NoScaling
    /\ finding = NoFinding
    /\ \E readyState \in ReadyStates, log \in NavigationLogs :
          settling = SettlingInit(readyState, log)

NextSettle ==
    \/ Navigate
    \/ ReadyStateChange
    \/ LoadEvent
    \/ \E k \in 1..MaxLogLen : LoadTimeout(k)
    \/ SettleElapsed
    \/ Unload

SpecSettle == InitSettle /\ [][NextSettle]_vars

\* The player's own steps and its timers get their turn; the document's
\* progress and the commit of a navigation are the environment's.
SpecSettleFair ==
    /\ SpecSettle
    /\ WF_vars(Navigate)
    /\ WF_vars(\E k \in 1..MaxLogLen : LoadTimeout(k))
    /\ WF_vars(SettleElapsed)

\* C32: every play() call eventually returns: each settlement wait resolves
\* (on load, on readyState 'complete', or at the timeout), and the call goes
\* on to its end.
C32_EveryPlayReturns == <>(settling.pc = "returned")


(***************************************************************************)
(* SelectorEngine.findInDocument with fields the browser rejects           *)
(***************************************************************************)
\* the fields that are handed to querySelector or to evaluate
Queried == {"id", "name", "testId", "className", "css", "xpath"}

\* selector sets with every field, of which up to MaxMatched are rejected
FaultySelectorSets ==
    {[SelectorSet(Range(Strategies), t) EXCEPT !.invalid = bad] :
        bad \in {b \in SUBSET Queried : Cardinality(b) <= MaxMatched},
        t \in {"a", "button"}}

InitFaulty ==
    /\ player = PlayerInit
    /\ calls = <<>>
    /\ location = "/start"
    /\ response = NoResponse
    /\ CaptureInit
    /\ page \in Documents
    /\ selectorSet \in FaultySelectorSets
    /\ element = Unresolved
    /\ scaling = NoScaling
    /\ finding = NoFinding
    /\ settling = NoSettling

NextFaulty == FindElement

SpecFaulty == InitFaulty /\ [][NextFaulty]_vars

\* the selector set without the fields that are rejected
WithoutInvalid(sel) == [sel EXCEPT !.given = @ \ sel.invalid, !.invalid = {}]

\* C33: a level whose query throws is passed over: findInDocument returns,
\* and returns what it returns for the selector set without the rejected
\* fields.
C33_QueryFailureConfined ==
    element # Unresolved =>
        /\ element.index = findInDocument(page, selectorSet)
        /\ element.index # Thrown
        /\ element.index = findInDocument(page, WithoutInvalid(selectorSet))

\* a rejected field stands before the level that produced the element, and
\* an element of the document satisfies the rejected level
C33_Witness ==
    /\ element # Unresolved /\ element.index > 0
    /\ \E n \in 1..Len(Strategies) :
          /\ Strategies[n] \in selectorSet.invalid
          /\ querySelector(page, Strategies[n]) \notin {0, element.index}
          /\ \A j \in 1..n : Strategies[j] \notin page[element.index].matches


(***************************************************************************)
(* Recorder: observers after stop(), syncs after navigations, timestamps   *)
(***************************************************************************)
\* C34: while the page's recorder is not recording, nothing that start() or
\* restore() installed is left: the sync interval is cleared and no
\* checkUrlChange closure (with its poll, its mutation observer, its
\* history wrappers and its three listeners) remains; and start()/stop()
\* cycles never leave more than one of them installed.
C34_StopDetachesObservers ==
    /\ (injected /\ ~recorder.isRecording) => (~recorder.syncInterval /\ trackers = <<>>)
    /\ Len(trackers) <= 1


\* the step is a restore() from a recording mirror that appends its bridging
\* navigation
NavigationBridged ==
    /\ RestoreCalled
    /\ recordingState.isRecording
    /\ Len(recorder'.actions) = Len(recordingState.actions) + 1
    /\ LastAction(recorder').type = "navigation"

\* the step is a URL-change detector's handleNavigation that appends
NavigationDetected == NavigationAppended /\ ~RestoreCalled

\* the step sends a SYNC_ACTIONS message with the log as the step leaves it
SyncSent ==
    /\ Len(channel') = Len(channel) + 1
    /\ channel'[Len(channel')] = SyncActionsMsg(recorder')

\* C35: the step that appends a Navigation action, be it a URL-change
\* detector's or restore()'s, sends the log to the mirror before it ends,
\* hence before anything else is appended.
C35_SyncAfterEveryNavigation ==
    [][ (NavigationDetected \/ NavigationBridged) => SyncSent ]_vars


\* the timestamps of a log never decrease along it
NonDecreasing(log) ==
    \A i, j \in DOMAIN log : i < j => log[i].timing.timestamp <= log[j].timing.timestamp

\* C36: the timestamps of the in-progress log are non-decreasing in log
\* order: no step (a capture, a text-entry merge, a restore() in a page whose
\* clock has its own origin) taken from a log in that order, and for restore()
\* from a mirror in that order, leaves a log out of it.
C36_TimestampsMonotonic ==
    [][ (/\ NonDecreasing(recorder.actions)
         /\ RestoreCalled => NonDecreasing(recordingState.actions))
        => NonDecreasing(recorder'.actions) ]_vars


(***************************************************************************)
(* Recorder and mirror: text entry between two syncs                       *)
(***************************************************************************)
InitMerge == InitCapture

NextMerge ==
    \/ Inject
    \/ StartRecording
    \/ \E target \in ClickTargets, t \in 1..MaxTime : CaptureClick(target, t)
    \/ \E value \in Values, t \in 1..MaxTime : CaptureInput(EmailField, value, t)
    \/ SyncTick
    \/ Deliver

SpecMerge == InitMerge /\ [][NextMerge]_vars

\* the background, recording, handles a SYNC_ACTIONS message that carries the
\* log as the recorder holds it now: nothing was captured since it was sent
FullLogSynced ==
    /\ Delivered
    /\ recordingState.isRecording
    /\ Head(channel) = SyncActionsMsg(recorder)

\* C37: once a sync of the full log is processed with no capture since, the
\* mirror holds one entry per action of the log: its list is as long as the
\* log, and every text entry of the log, merged or not, is in it with the
\* value the log holds.
C37_OneMirrorEntryPerAction ==
    [][ FullLogSynced =>
          /\ Len(recordingState'.actions) = Len(recorder.actions)
          /\ \A k \in DOMAIN recorder.actions :
                recorder.actions[k].type = "input"
                    => recorder.actions[k] \in Range(recordingState'.actions) ]_vars


\* C38: a sync never loses an action: after the background, recording, has
\* handled a SYNC_ACTIONS message carrying the recorder's full log, every
\* action of that log is in the mirror, two actions with one timestamp
\* included.
C38_SyncLosesNoAction ==
    [][ FullLogSynced => Range(recorder.actions) \subseteq Range(recordingState'.actions) ]_vars


(***************************************************************************)
(* Background: SYNC_ACTIONS while the mirror is not recording              *)
(***************************************************************************)
\* the user closes the tab: beforeunload runs in its page, which is
\* discarded with its content script; chrome.tabs.onRemoved is yet to fire
CloseTab ==
    /\ tabStatus = "complete" /\ restorePc = "idle"
    /\ Len(channel) + Len(BeforeUnloadMessages) <= MaxChannel
    /\ channel' = channel \o BeforeUnloadMessages
    /\ injected' = FALSE
    /\ recorder' = RecorderInit
    /\ player' = PlayerInit
    /\ calls' = <<>>
    /\ trackers' = <<>>
    /\ tabStatus' = "removed"
    /\ returnedLog' = NoReturnedLog
    /\ response' = NoResponse
    /\ UNCHANGED <<clock, recordingState, restorePc, reloads, carried>>
    /\ UNCHANGED <<libVars, peer, location>>

\* the chrome.tabs.onRemoved listener of the background, for the closed tab
TabRemoved ==
    /\ tabStatus = "removed"
    /\ tabStatus' = "gone"
    /\ recordingState' = IF recordingState.isRecording /\ recordingState.tabId = Tab
                         THEN resetRecordingState ELSE recordingState
    /\ response' = NoResponse
    /\ UNCHANGED <<injected, recorder, clock, channel, restorePc, reloads, trackers, carried>>
    /\ UNCHANGED <<replayVars, libVars, peer, location, returnedLog>>

InitMirror == InitCapture

NextMirror ==
    \/ tabStatus = "complete" /\ Inject
    \/ StartRecording
    \/ StopRecording
    \/ \E target \in ClickTargets, t \in 1..MaxTime : CaptureClick(target, t)
    \/ SyncTick
    \/ Deliver
    \/ CloseTab
    \/ TabRemoved

SpecMirror == InitMirror /\ [][NextMirror]_vars

\* the background, not recording, handles a SYNC_ACTIONS message
SyncRefusable ==
    /\ Delivered
    /\ Head(channel).type = "SYNC_ACTIONS"
    /\ ~recordingState.isRecording

\* C39: a SYNC_ACTIONS message handled while the mirror is not recording is
\* answered with the error 'Not recording' and leaves the mirror as it was.
C39_SyncRefusedWhenNotRecording ==
    [][ SyncRefusable =>
          /\ response' = Answer(FALSE, ErrNotRecording)
          /\ recordingState' = recordingState ]_vars

\* a sync was refused after the recording tab was closed and the mirror reset
C39_Witness ==
    /\ response = Answer(FALSE, ErrNotRecording)
    /\ tabStatus = "gone"
    /\ recordingState = resetRecordingState


(***************************************************************************)
(* Player: isPlaying and the loops in flight                               *)
(***************************************************************************)
\* a play() call has passed its checks and has not returned
LoopInFlight == calls # <<>>

\* C40: isPlaying is true exactly while a play() loop is in flight, under
\* any interleaving of play(), pause(), stop() and setSpeed().
C40_IsPlayingIffLoopInFlight == LoopInFlight <=> player.isPlaying

====
